---- MODULE Spec2Model ----
(***************************************************************************)
(* A model of the prost wire-format codec (src/src/encoding.rs,            *)
(* src/src/message.rs) and of the harnesses that drive it                  *)
(* (encoding.rs test::check_type / check_collection_type / varint,         *)
(* tests/message_encoding.rs check_message, test-all-types roundtrip).     *)
(*                                                                         *)
(* Machine integers are bit vectors, least significant bit first, so that  *)
(* u64 / i32 arithmetic keeps its width: a u64 is a sequence of 64 bits.   *)
(* Bytes are the integers 0..255.  A BytesMut is a record                  *)
(* [data, cap, panic]; a Bytes cursor is the sequence of bytes remaining.  *)
(***************************************************************************)
EXTENDS Integers, Sequences, FiniteSets, TLC

VARIABLES
    pc,            \* control point of the running harness
    kind,          \* the scalar kind / scenario under test
    tag,           \* field tag handed to encode
    value,         \* the input value (u64, scalar, list, message ...)
    wbuf,          \* the BytesMut being written: [data, cap, panic]
    buf,           \* the Bytes cursor being read: the bytes remaining
    expected_len,  \* the result of the encoded_len call
    dst,           \* the destination of merge / the roundtrip value
    res,           \* the outcome of the last decoding call
    follow,        \* bytes that follow the encoded item in the stream read back
    mode,          \* the form of the field: "single", "repeated" or "packed"
    prior          \* what the destination held before the first merge

vars == <<pc, kind, tag, value, wbuf, buf, expected_len, dst, res, follow, mode, prior>>

(***************************************************************************)
(* Bit vectors                                                             *)
(***************************************************************************)
Zero(w) == [i \in 1..w |-> 0]

Ones(w) == [i \in 1..w |-> 1]

\* 2^k - 1 as a w-bit word
LowOnes(k, w) == [i \in 1..w |-> IF i <= k THEN 1 ELSE 0]

\* 2^k as a w-bit word
Pow2(k, w) == [i \in 1..w |-> IF i = k + 1 THEN 1 ELSE 0]

\* x << n, bits shifted out are lost
Shl(x, n) == [i \in 1..Len(x) |-> IF i > n THEN x[i - n] ELSE 0]

\* x >> n on an unsigned word
Shr(x, n) == [i \in 1..Len(x) |-> IF i + n <= Len(x) THEN x[i + n] ELSE 0]

\* x >> n on a signed word (the sign bit is replicated)
Sar(x, n) == [i \in 1..Len(x) |-> IF i + n <= Len(x) THEN x[i + n] ELSE x[Len(x)]]

BitXor(x, y) == [i \in 1..Len(x) |-> (x[i] + y[i]) % 2]

BitOr(x, y) == [i \in 1..Len(x) |-> IF x[i] = 1 \/ y[i] = 1 THEN 1 ELSE 0]

BitAnd(x, y) == [i \in 1..Len(x) |-> x[i] * y[i]]

\* two's complement negation
Neg(x) == [i \in 1..Len(x) |-> IF \E j \in 1..(i - 1) : x[j] = 1 THEN 1 - x[i] ELSE x[i]]

\* `as` conversions between widths
Trunc(x, w) == [i \in 1..w |-> x[i]]

ZeroExt(x, w) == [i \in 1..w |-> IF i <= Len(x) THEN x[i] ELSE 0]

SignExt(x, w) == [i \in 1..w |-> IF i <= Len(x) THEN x[i] ELSE x[Len(x)]]

\* x < 2^k
Below(x, k) == \A i \in (k + 1)..Len(x) : x[i] = 0

\* a natural number below 2^30 as a w-bit word
FromNat(n, w) == [i \in 1..w |-> IF i <= 30 THEN (n \div (2 ^ (i - 1))) % 2 ELSE 0]

RECURSIVE WordSum(_, _)
WordSum(x, i) == IF i > Len(x) \/ i > 30 THEN 0 ELSE x[i] * (2 ^ (i - 1)) + WordSum(x, i + 1)

\* the number a word below 2^30 stands for
ToNat(x) == WordSum(x, 1)

\* x > n for a u64 x and a usize n below 2^30 (`len > buf.remaining() as u64`)
Exceeds(x, n) == ~Below(x, 30) \/ ToNat(x) > n

\* little-endian bytes of a word (put_u32::<LittleEndian> and the like)
LeBytes(x) == [b \in 1..(Len(x) \div 8) |-> ToNat([i \in 1..8 |-> x[8 * (b - 1) + i]])]

\* the word made of the first w / 8 bytes of a buffer (get_u32::<LittleEndian>)
FromLeBytes(bs, w) == [i \in 1..w |-> FromNat(bs[((i - 1) \div 8) + 1], 8)[((i - 1) % 8) + 1]]

Min(a, b) == IF a < b THEN a ELSE b

Max(a, b) == IF a > b THEN a ELSE b

\* the sequence of n copies of byte b
Rep(b, n) == [i \in 1..n |-> b]

\* the bytes of a cursor after advance(n)
Advance(bs, n) == SubSeq(bs, n + 1, Len(bs))

(***************************************************************************)
(* Results of decoding calls: io::Result<T> together with the cursor       *)
(***************************************************************************)
Ok(v, rest) == [err |-> "none", val |-> v, buf |-> rest]

\* invalid_data: Error::new(ErrorKind::InvalidData, ..)
invalid_data(rest) == [err |-> "InvalidData", val |-> <<>>, buf |-> rest]

\* invalid_input: Error::new(ErrorKind::InvalidInput, ..)
invalid_input(rest) == [err |-> "InvalidInput", val |-> <<>>, buf |-> rest]

(***************************************************************************)
(* BytesMut                                                                *)
(***************************************************************************)
\* BytesMut::with_capacity(n), holding no bytes
WithCapacity(n) == [data |-> <<>>, cap |-> n, panic |-> FALSE]

\* BytesMut::reserve(n): at least n more bytes can be written
Reserve(b, n) == [b EXCEPT !.cap = Max(@, Len(b.data) + n)]

\* BufMut::put_slice / put_u32 ...: asserts the space is there
PutSlice(b, bs) ==
    IF b.panic THEN b
    ELSE IF Len(b.data) + Len(bs) > b.cap THEN [b EXCEPT !.panic = TRUE]
    ELSE [b EXCEPT !.data = @ \o bs]

(***************************************************************************)
(* Varint codec                                                            *)
(***************************************************************************)
\* the for loop over buf.bytes_mut(): one byte per iteration; when the spare
\* bytes run out before the last group, assert!(buf.has_remaining_mut()) fails
RECURSIVE encode_varint(_, _)
encode_varint(v, b) ==
    IF b.panic THEN b
    ELSE IF Len(b.data) >= b.cap THEN [b EXCEPT !.panic = TRUE]
    ELSE IF Below(v, 7) THEN [b EXCEPT !.data = Append(@, ToNat(v))]
    ELSE encode_varint(Shr(v, 7),
                       [b EXCEPT !.data = Append(@, ToNat(Trunc(v, 7)) + 128)])

RECURSIVE decode_varint_loop(_, _, _, _)
decode_varint_loop(v, count, limit, bs) ==
    IF count >= limit THEN invalid_data(bs)
    ELSE LET byte == Head(bs)
             v2 == BitOr(v, Shl(FromNat(byte % 128, 64), count * 7))
         IN  IF byte <= 127 THEN Ok(v2, Tail(bs))
             ELSE decode_varint_loop(v2, count + 1, limit, Tail(bs))

\* mutant: the loop stops after nine bytes
decode_varint_nine(bs) == decode_varint_loop(Zero(64), 0, Min(9, Len(bs)), bs)

decode_varint(bs) == decode_varint_loop(Zero(64), 0, Min(10, Len(bs)), bs)

\* mutant: the table ends one row early
encoded_len_varint_short(v) ==
    IF Below(v, 7) THEN 1
    ELSE IF Below(v, 14) THEN 2
    ELSE IF Below(v, 21) THEN 3
    ELSE IF Below(v, 28) THEN 4
    ELSE IF Below(v, 35) THEN 5
    ELSE IF Below(v, 42) THEN 6
    ELSE IF Below(v, 49) THEN 7
    ELSE IF Below(v, 56) THEN 8
    ELSE 9

encoded_len_varint(v) ==
    IF Below(v, 7) THEN 1
    ELSE IF Below(v, 14) THEN 2
    ELSE IF Below(v, 21) THEN 3
    ELSE IF Below(v, 28) THEN 4
    ELSE IF Below(v, 35) THEN 5
    ELSE IF Below(v, 42) THEN 6
    ELSE IF Below(v, 49) THEN 7
    ELSE IF Below(v, 56) THEN 8
    ELSE IF Below(v, 63) THEN 9
    ELSE 10

(***************************************************************************)
(* Field keys                                                              *)
(***************************************************************************)
Varint == 0

SixtyFourBit == 1

LengthDelimited == 2

ThirtyTwoBit == 5

WireTypes == {Varint, SixtyFourBit, LengthDelimited, ThirtyTwoBit}

MIN_TAG == 1

\* (1 << 29) - 1
MAX_TAG == 536870911

\* WireType::try_from(val): the wire type, or an error
WireType_try_from(val, rest) ==
    IF val \in {0, 1, 2, 5} THEN Ok(val, rest) ELSE invalid_data(rest)

\* (tag << 3) | wire_type in u32, handed to encode_varint as u64
encode_key(t, wire_type, b) ==
    encode_varint(ZeroExt(BitOr(Shl(FromNat(t, 32), 3), FromNat(wire_type, 32)), 64), b)

\* mutant: the zero tag is let through
decode_key_zero_tag(bs) ==
    LET split(k, wt) ==
            IF wt.err # "none" THEN wt
            ELSE Ok(<<ToNat(Shr(Trunc(k.val, 32), 3)), wt.val>>, k.buf)
        key(k) ==
            IF k.err # "none" THEN k
            ELSE IF ~Below(k.val, 32) THEN invalid_data(k.buf)
            ELSE split(k, WireType_try_from(ToNat(Trunc(k.val, 3)), k.buf))
    IN  key(decode_varint(bs))

decode_key(bs) ==
    LET split(k, wt) ==
            IF wt.err # "none" THEN wt
            ELSE IF ToNat(Shr(Trunc(k.val, 32), 3)) < MIN_TAG THEN invalid_data(k.buf)
            ELSE Ok(<<ToNat(Shr(Trunc(k.val, 32), 3)), wt.val>>, k.buf)
        key(k) ==
            IF k.err # "none" THEN k
            ELSE IF ~Below(k.val, 32) THEN invalid_data(k.buf)
            ELSE split(k, WireType_try_from(ToNat(Trunc(k.val, 3)), k.buf))
    IN  key(decode_varint(bs))

key_len(t) == encoded_len_varint(ZeroExt(Shl(FromNat(t, 32), 3), 64))

\* mutant: every wire type passes the check
check_wire_type_lax(expected, actual) == TRUE

\* check_wire_type: TRUE when the wire types agree
check_wire_type(expected, actual) == expected = actual

\* mutant: the payload of a length-delimited field is left in the buffer
skip_field_no_payload(wire_type, bs) ==
    LET drained(r) == IF r.err # "none" THEN r ELSE Ok(<<>>, r.buf)
    IN  CASE wire_type = Varint -> drained(decode_varint(bs))
          [] wire_type = SixtyFourBit ->
                IF Len(bs) < 8 THEN invalid_data(bs) ELSE Ok(<<>>, Advance(bs, 8))
          [] wire_type = ThirtyTwoBit ->
                IF Len(bs) < 4 THEN invalid_data(bs) ELSE Ok(<<>>, Advance(bs, 4))
          [] wire_type = LengthDelimited -> drained(decode_varint(bs))

skip_field(wire_type, bs) ==
    LET drained(r) == IF r.err # "none" THEN r ELSE Ok(<<>>, r.buf)
        delimited(r) ==
            IF r.err # "none" THEN r
            ELSE IF Exceeds(r.val, Len(r.buf)) THEN invalid_data(r.buf)
            ELSE Ok(<<>>, Advance(r.buf, ToNat(r.val)))
    IN  CASE wire_type = Varint -> drained(decode_varint(bs))
          [] wire_type = SixtyFourBit ->
                IF Len(bs) < 8 THEN invalid_data(bs) ELSE Ok(<<>>, Advance(bs, 8))
          [] wire_type = ThirtyTwoBit ->
                IF Len(bs) < 4 THEN invalid_data(bs) ELSE Ok(<<>>, Advance(bs, 4))
          [] wire_type = LengthDelimited -> delimited(decode_varint(bs))

(***************************************************************************)
(* Scalar codecs: the varint!, fixed_width! and length_delimited! families *)
(***************************************************************************)
VarintKinds == {"bool", "int32", "int64", "uint32", "uint64", "sint32", "sint64"}

Fixed32Kinds == {"float", "fixed32", "sfixed32"}

Fixed64Kinds == {"double", "fixed64", "sfixed64"}

FixedKinds == Fixed32Kinds \cup Fixed64Kinds

NumericKinds == VarintKinds \cup FixedKinds

LengthDelimitedKinds == {"string", "bytes"}

ScalarKinds == NumericKinds \cup LengthDelimitedKinds

\* the wire type each family passes to encode_key
NaturalWireType(k) ==
    CASE k \in VarintKinds -> Varint
      [] k \in Fixed32Kinds -> ThirtyTwoBit
      [] k \in Fixed64Kinds -> SixtyFourBit
      [] OTHER -> LengthDelimited

\* $width of fixed_width!
Width(k) == IF k \in Fixed32Kinds THEN 4 ELSE 8

\* Default::default() of the Rust type of each kind
DefaultOf(k) ==
    CASE k = "bool" -> FALSE
      [] k \in {"int32", "uint32", "sint32"} \cup Fixed32Kinds -> Zero(32)
      [] k \in {"int64", "uint64", "sint64"} \cup Fixed64Kinds -> Zero(64)
      [] OTHER -> <<>>

\* a failed merge: the error, the destination as the call left it, the cursor
Fail(e, d, rest) == [err |-> e, val |-> d, buf |-> rest]

\* the sum of a sequence of lengths
RECURSIVE Sum(_)
Sum(ns) == IF Len(ns) = 0 THEN 0 ELSE Head(ns) + Sum(Tail(ns))

\* mutant: the sint32 mapping leaves out the sign term (value >> 31)
to_uint64_no_sign(k, v) ==
    CASE k = "bool" -> IF v THEN Pow2(0, 64) ELSE Zero(64)
      [] k = "int32" -> SignExt(v, 64)
      [] k = "uint32" -> ZeroExt(v, 64)
      [] k = "sint32" -> ZeroExt(Shl(v, 1), 64)
      [] k = "sint64" -> BitXor(Shl(v, 1), Sar(v, 63))
      [] OTHER -> v

\* mutant: an int32 is widened without its sign (value as u32 as u64)
to_uint64_zero_ext(k, v) ==
    CASE k = "bool" -> IF v THEN Pow2(0, 64) ELSE Zero(64)
      [] k \in {"int32", "uint32"} -> ZeroExt(v, 64)
      [] k = "sint32" -> ZeroExt(BitXor(Shl(v, 1), Sar(v, 31)), 64)
      [] k = "sint64" -> BitXor(Shl(v, 1), Sar(v, 63))
      [] OTHER -> v

\* to_uint64 of varint!
to_uint64(k, v) ==
    CASE k = "bool" -> IF v THEN Pow2(0, 64) ELSE Zero(64)
      [] k = "int32" -> SignExt(v, 64)
      [] k = "uint32" -> ZeroExt(v, 64)
      [] k = "sint32" -> ZeroExt(BitXor(Shl(v, 1), Sar(v, 31)), 64)
      [] k = "sint64" -> BitXor(Shl(v, 1), Sar(v, 63))
      [] OTHER -> v

\* mutant: the sint mappings leave out the sign term -(value & 1)
from_uint64_no_neg(k, u) ==
    CASE k = "bool" -> u # Zero(64)
      [] k \in {"int32", "uint32", "sint32"} -> Shr(Trunc(u, 32), IF k = "sint32" THEN 1 ELSE 0)
      [] k = "sint64" -> Shr(u, 1)
      [] OTHER -> u

\* mutant: the sint32 mapping is applied to all 64 bits and narrowed afterwards
from_uint64_no_trunc(k, u) ==
    CASE k = "bool" -> u # Zero(64)
      [] k \in {"int32", "uint32"} -> Trunc(u, 32)
      [] k = "sint32" -> Trunc(BitXor(Shr(u, 1), Neg(BitAnd(u, Pow2(0, 64)))), 32)
      [] k = "sint64" -> BitXor(Shr(u, 1), Neg(BitAnd(u, Pow2(0, 64))))
      [] OTHER -> u

\* mutant: a bool is the lowest bit of the varint
from_uint64_low_bit(k, u) ==
    CASE k = "bool" -> u[1] = 1
      [] k \in {"int32", "uint32"} -> Trunc(u, 32)
      [] k = "sint32" -> BitXor(Shr(Trunc(u, 32), 1), Neg(BitAnd(Trunc(u, 32), Pow2(0, 32))))
      [] k = "sint64" -> BitXor(Shr(u, 1), Neg(BitAnd(u, Pow2(0, 64))))
      [] OTHER -> u

\* from_uint64 of varint!
from_uint64(k, u) ==
    CASE k = "bool" -> u # Zero(64)
      [] k \in {"int32", "uint32"} -> Trunc(u, 32)
      [] k = "sint32" ->
            LET v == Trunc(u, 32)
            IN  BitXor(Shr(v, 1), Neg(BitAnd(v, Pow2(0, 32))))
      [] k = "sint64" -> BitXor(Shr(u, 1), Neg(BitAnd(u, Pow2(0, 64))))
      [] OTHER -> u

varint_encode(k, t, v, b) == encode_varint(to_uint64(k, v), encode_key(t, Varint, b))

varint_merge(k, wire_type, d, bs) ==
    LET merged(r) ==
            IF r.err # "none" THEN Fail(r.err, d, r.buf)
            ELSE Ok(from_uint64(k, r.val), r.buf)
    IN  IF ~check_wire_type(Varint, wire_type) THEN Fail("InvalidData", d, bs)
        ELSE merged(decode_varint(bs))

varint_encoded_len(k, t, v) == key_len(t) + encoded_len_varint(to_uint64(k, v))

fixed_width_encode(k, t, v, b) == PutSlice(encode_key(t, NaturalWireType(k), b), LeBytes(v))

fixed_width_merge(k, wire_type, d, bs) ==
    IF ~check_wire_type(NaturalWireType(k), wire_type) THEN Fail("InvalidData", d, bs)
    ELSE IF Len(bs) < Width(k) THEN Fail("InvalidData", d, bs)
    ELSE Ok(FromLeBytes(bs, 8 * Width(k)), Advance(bs, Width(k)))

fixed_width_encoded_len(k, t, v) == key_len(t) + Width(k)

\* the length of the character a lead byte at position i starts when it is
\* well formed (the table of well-formed UTF-8 byte sequences), or 0
Utf8CharLen(bs, i) ==
    LET n == Len(bs)
        b == bs[i]
        In(j, lo, hi) == i + j <= n /\ bs[i + j] \in lo..hi
    IN  CASE b <= 127 -> 1
          [] b \in 194..223 -> IF In(1, 128, 191) THEN 2 ELSE 0
          [] b = 224 -> IF In(1, 160, 191) /\ In(2, 128, 191) THEN 3 ELSE 0
          [] b \in (225..236) \cup {238, 239} ->
                IF In(1, 128, 191) /\ In(2, 128, 191) THEN 3 ELSE 0
          [] b = 237 -> IF In(1, 128, 159) /\ In(2, 128, 191) THEN 3 ELSE 0
          [] b = 240 ->
                IF In(1, 144, 191) /\ In(2, 128, 191) /\ In(3, 128, 191) THEN 4 ELSE 0
          [] b \in 241..243 ->
                IF In(1, 128, 191) /\ In(2, 128, 191) /\ In(3, 128, 191) THEN 4 ELSE 0
          [] b = 244 ->
                IF In(1, 128, 143) /\ In(2, 128, 191) /\ In(3, 128, 191) THEN 4 ELSE 0
          [] OTHER -> 0

\* str::from_utf8(..).is_ok(): the first byte is no continuation byte, every
\* other byte starts a well-formed character, and after each character comes
\* the end or another character
Utf8Valid(bs) ==
    LET n == Len(bs)
        IsCont(i) == bs[i] \in 128..191
    IN  /\ n > 0 => ~IsCont(1)
        /\ \A i \in 1..n :
              ~IsCont(i) =>
                  LET l == Utf8CharLen(bs, i)
                  IN  l > 0 /\ (i + l = n + 1 \/ (i + l <= n /\ ~IsCont(i + l)))

\* string::encode and bytes::encode write the same bytes: key, length, payload
bytes_encode(t, v, b) ==
    PutSlice(encode_varint(FromNat(Len(v), 64), encode_key(t, LengthDelimited, b)), v)

string_encode(t, v, b) ==
    PutSlice(encode_varint(FromNat(Len(v), 64), encode_key(t, LengthDelimited, b)), v)

\* bytes::merge: value.extend_from_slice(&buf[..len])
bytes_merge(wire_type, d, bs) ==
    LET extend(r) ==
            IF r.err # "none" THEN Fail(r.err, d, r.buf)
            ELSE IF Exceeds(r.val, Len(r.buf)) THEN Fail("InvalidData", d, r.buf)
            ELSE Ok(d \o SubSeq(r.buf, 1, ToNat(r.val)), Advance(r.buf, ToNat(r.val)))
    IN  IF ~check_wire_type(LengthDelimited, wire_type) THEN Fail("InvalidData", d, bs)
        ELSE extend(decode_varint(bs))

\* mutant: only the bytes just read are checked, not the String they are put in
string_merge_payload_only(wire_type, d, bs) ==
    LET checked(r) ==
            IF r.err # "none" THEN r
            ELSE IF ~Utf8Valid(SubSeq(r.val, Len(d) + 1, Len(r.val)))
            THEN Fail("InvalidData", r.val, r.buf)
            ELSE r
    IN  checked(bytes_merge(wire_type, d, bs))

\* string::merge: bytes::merge into the String's own vector, then the UTF-8 check
string_merge(wire_type, d, bs) ==
    LET checked(r) ==
            IF r.err # "none" THEN r
            ELSE IF ~Utf8Valid(r.val) THEN Fail("InvalidData", r.val, r.buf)
            ELSE r
    IN  checked(bytes_merge(wire_type, d, bs))

length_delimited_encoded_len(t, v) ==
    key_len(t) + encoded_len_varint(FromNat(Len(v), 64)) + Len(v)

\* $proto_ty::encode
scalar_encode(k, t, v, b) ==
    CASE k \in VarintKinds -> varint_encode(k, t, v, b)
      [] k \in FixedKinds -> fixed_width_encode(k, t, v, b)
      [] k = "string" -> string_encode(t, v, b)
      [] k = "bytes" -> bytes_encode(t, v, b)

\* $proto_ty::merge
scalar_merge(k, wire_type, d, bs) ==
    CASE k \in VarintKinds -> varint_merge(k, wire_type, d, bs)
      [] k \in FixedKinds -> fixed_width_merge(k, wire_type, d, bs)
      [] k = "string" -> string_merge(wire_type, d, bs)
      [] k = "bytes" -> bytes_merge(wire_type, d, bs)

\* $proto_ty::encoded_len
scalar_encoded_len(k, t, v) ==
    CASE k \in VarintKinds -> varint_encoded_len(k, t, v)
      [] k \in FixedKinds -> fixed_width_encoded_len(k, t, v)
      [] OTHER -> length_delimited_encoded_len(t, v)

\* encode_repeated!: one field occurrence per element
RECURSIVE encode_repeated(_, _, _, _)
encode_repeated(k, t, vs, b) ==
    IF b.panic \/ Len(vs) = 0 THEN b
    ELSE encode_repeated(k, t, Tail(vs), scalar_encode(k, t, Head(vs), b))

\* the values of a packed run, without keys
RECURSIVE encode_packed_values(_, _, _)
encode_packed_values(k, vs, b) ==
    IF b.panic \/ Len(vs) = 0 THEN b
    ELSE encode_packed_values(k, Tail(vs),
            IF k \in VarintKinds THEN encode_varint(to_uint64(k, Head(vs)), b)
            ELSE PutSlice(b, LeBytes(Head(vs))))

\* mutant: the length of a run counts a key for every value
packed_len_keyed(k, vs) == Sum([i \in 1..Len(vs) |-> scalar_encoded_len(k, MIN_TAG, vs[i])])

\* the length prefix encode_packed writes
packed_len(k, vs) ==
    IF k \in VarintKinds
    THEN Sum([i \in 1..Len(vs) |-> encoded_len_varint(to_uint64(k, vs[i]))])
    ELSE Len(vs) * Width(k)

\* varint!::encode_packed and fixed_width!::encode_packed
encode_packed(k, t, vs, b) ==
    IF Len(vs) = 0 THEN b
    ELSE encode_packed_values(k, vs,
            encode_varint(FromNat(packed_len(k, vs), 64), encode_key(t, LengthDelimited, b)))

\* the while loop of merge_repeated_numeric! over the split-off run
RECURSIVE merge_packed_run(_, _, _, _)
merge_packed_run(k, values, run, rest) ==
    LET push(r) ==
            IF r.err # "none" THEN Fail(r.err, values, rest)
            ELSE merge_packed_run(k, Append(values, r.val), r.buf, rest)
    IN  IF Len(run) = 0 THEN Ok(values, rest)
        ELSE push(scalar_merge(k, NaturalWireType(k), DefaultOf(k), run))

\* mutant: a packed run is refused
merge_repeated_numeric_unpacked_only(k, wire_type, values, bs) ==
    LET push(r) ==
            IF r.err # "none" THEN Fail(r.err, values, r.buf)
            ELSE Ok(Append(values, r.val), r.buf)
    IN  IF ~check_wire_type(NaturalWireType(k), wire_type)
        THEN Fail("InvalidData", values, bs)
        ELSE push(scalar_merge(k, wire_type, DefaultOf(k), bs))

\* merge_repeated_numeric!
merge_repeated_numeric(k, wire_type, values, bs) ==
    LET push(r) ==
            IF r.err # "none" THEN Fail(r.err, values, r.buf)
            ELSE Ok(Append(values, r.val), r.buf)
        packed(l) ==
            IF l.err # "none" THEN Fail(l.err, values, l.buf)
            ELSE IF Exceeds(l.val, Len(l.buf)) THEN Fail("InvalidData", values, l.buf)
            ELSE merge_packed_run(k, values, SubSeq(l.buf, 1, ToNat(l.val)),
                                  Advance(l.buf, ToNat(l.val)))
    IN  IF wire_type = LengthDelimited THEN packed(decode_varint(bs))
        ELSE IF ~check_wire_type(NaturalWireType(k), wire_type)
        THEN Fail("InvalidData", values, bs)
        ELSE push(scalar_merge(k, wire_type, DefaultOf(k), bs))

\* length_delimited!::merge_repeated
length_delimited_merge_repeated(k, wire_type, values, bs) ==
    LET push(r) ==
            IF r.err # "none" THEN Fail(r.err, values, r.buf)
            ELSE Ok(Append(values, r.val), r.buf)
    IN  IF ~check_wire_type(LengthDelimited, wire_type)
        THEN Fail("InvalidData", values, bs)
        ELSE push(scalar_merge(k, wire_type, DefaultOf(k), bs))

\* $proto_ty::merge_repeated
merge_repeated(k, wire_type, values, bs) ==
    IF k \in NumericKinds THEN merge_repeated_numeric(k, wire_type, values, bs)
    ELSE length_delimited_merge_repeated(k, wire_type, values, bs)

\* $proto_ty::encoded_len_repeated
encoded_len_repeated(k, t, vs) ==
    CASE k \in VarintKinds ->
            key_len(t) * Len(vs)
                + Sum([i \in 1..Len(vs) |-> encoded_len_varint(to_uint64(k, vs[i]))])
      [] k \in FixedKinds -> (key_len(t) + Width(k)) * Len(vs)
      [] OTHER ->
            key_len(t) * Len(vs)
                + Sum([i \in 1..Len(vs) |->
                        encoded_len_varint(FromNat(Len(vs[i]), 64)) + Len(vs[i])])

\* $proto_ty::encoded_len_packed
encoded_len_packed(k, t, vs) ==
    IF Len(vs) = 0 THEN 0
    ELSE LET len == packed_len(k, vs)
         IN  key_len(t) + encoded_len_varint(FromNat(len, 64)) + len

(***************************************************************************)
(* Maps: the map! family, expanded for BTreeMap and for HashMap.  A map is   *)
(* the sequence of its <<key, value>> entries; a BTreeMap keeps them        *)
(* ascending by key, which is its iteration order.                          *)
(***************************************************************************)
\* PartialEq of f32 and f64: a NaN equals nothing, the two zeros are equal
f32_is_nan(x) == (\A i \in 24..31 : x[i] = 1) /\ (\E i \in 1..23 : x[i] = 1)

f32_eq(a, b) ==
    /\ ~f32_is_nan(a)
    /\ ~f32_is_nan(b)
    /\ (a = b \/ \A i \in 1..31 : a[i] = 0 /\ b[i] = 0)

f64_is_nan(x) == (\A i \in 53..63 : x[i] = 1) /\ (\E i \in 1..52 : x[i] = 1)

f64_eq(a, b) ==
    /\ ~f64_is_nan(a)
    /\ ~f64_is_nan(b)
    /\ (a = b \/ \A i \in 1..63 : a[i] = 0 /\ b[i] = 0)

\* == on two values of the Rust type of kind k (V: PartialEq)
partial_eq(k, a, b) ==
    CASE k = "float" -> f32_eq(a, b)
      [] k = "double" -> f64_eq(a, b)
      [] OTHER -> a = b

\* Ord for i32 and i64: the order of two's complement numbers
i32_lt(a, b) ==
    IF a[32] # b[32] THEN a[32] = 1
    ELSE \E i \in 1..31 : a[i] < b[i] /\ \A j \in (i + 1)..31 : a[j] = b[j]

i64_lt(a, b) ==
    IF a[64] # b[64] THEN a[64] = 1
    ELSE \E i \in 1..63 : a[i] < b[i] /\ \A j \in (i + 1)..63 : a[j] = b[j]

\* Ord for u32 and u64
unsigned_lt(a, b) == \E i \in 1..Len(a) : a[i] < b[i] /\ \A j \in (i + 1)..Len(a) : a[j] = b[j]

\* Ord for String: the order of the byte sequences
str_lt(a, b) ==
    \/ Len(a) < Len(b) /\ SubSeq(b, 1, Len(a)) = a
    \/ \E i \in 1..Min(Len(a), Len(b)) : a[i] < b[i] /\ SubSeq(a, 1, i - 1) = SubSeq(b, 1, i - 1)

\* K: Ord for the Rust type of each key kind
key_lt(kk, a, b) ==
    CASE kk \in {"int32", "sint32", "sfixed32"} -> i32_lt(a, b)
      [] kk \in {"int64", "sint64", "sfixed64"} -> i64_lt(a, b)
      [] kk = "bool" -> a = FALSE /\ b = TRUE
      [] kk = "string" -> str_lt(a, b)
      [] OTHER -> unsigned_lt(a, b)

\* BTreeMap::insert(key, val): the value of a key that is present is replaced, a
\* new key goes to its place in key order
btree_map_insert(kk, values, key, val) ==
    IF \E i \in 1..Len(values) : values[i][1] = key
    THEN [i \in 1..Len(values) |-> IF values[i][1] = key THEN <<key, val>> ELSE values[i]]
    ELSE LET n == Cardinality({i \in 1..Len(values) : key_lt(kk, values[i][1], key)})
         IN  SubSeq(values, 1, n) \o <<<<key, val>>>> \o SubSeq(values, n + 1, Len(values))

\* HashMap::insert(key, val): the value of a key that is present is replaced.
\* A HashMap is kept as the sequence of its entries; the order of that sequence
\* stands for nothing (iteration takes any order, equality compares the
\* entries as a set), and a new entry is put at its end
hash_map_insert(values, key, val) ==
    IF \E i \in 1..Len(values) : values[i][1] = key
    THEN [i \in 1..Len(values) |-> IF values[i][1] = key THEN <<key, val>> ELSE values[i]]
    ELSE Append(values, <<key, val>>)

\* mutant: a key that is present keeps its value
map_insert_or_keep(map_ty, kk, values, key, val) ==
    IF \E i \in 1..Len(values) : values[i][1] = key THEN values
    ELSE IF map_ty = "btree_map" THEN btree_map_insert(kk, values, key, val)
    ELSE hash_map_insert(values, key, val)

\* values.insert(key, val) of the map type the map! family is expanded for
map_insert(map_ty, kk, values, key, val) ==
    IF map_ty = "btree_map" THEN btree_map_insert(kk, values, key, val)
    ELSE hash_map_insert(values, key, val)

\* mutant: the value is compared with V::default(), not with val_default
RECURSIVE map_encode_own_default(_, _, _, _, _, _)
map_encode_own_default(kk, vk, val_default, t, values, b) ==
    IF b.panic \/ Len(values) = 0 THEN b
    ELSE LET key == Head(values)[1]
             val == Head(values)[2]
             skip_key == key = DefaultOf(kk)
             skip_val == partial_eq(vk, val, DefaultOf(vk))
             len == (IF skip_key THEN 0 ELSE scalar_encoded_len(kk, 1, key))
                    + (IF skip_val THEN 0 ELSE scalar_encoded_len(vk, 2, val))
             b1 == encode_varint(FromNat(len, 64), encode_key(t, LengthDelimited, b))
             b2 == IF skip_key THEN b1 ELSE scalar_encode(kk, 1, key, b1)
             b3 == IF skip_val THEN b2 ELSE scalar_encode(vk, 2, val, b2)
         IN  map_encode_own_default(kk, vk, val_default, t, Tail(values), b3)

\* map!::encode_with_default: the for loop over values.iter()
RECURSIVE map_encode_with_default(_, _, _, _, _, _)
map_encode_with_default(kk, vk, val_default, t, values, b) ==
    IF b.panic \/ Len(values) = 0 THEN b
    ELSE LET key == Head(values)[1]
             val == Head(values)[2]
             skip_key == key = DefaultOf(kk)
             skip_val == partial_eq(vk, val, val_default)
             len == (IF skip_key THEN 0 ELSE scalar_encoded_len(kk, 1, key))
                    + (IF skip_val THEN 0 ELSE scalar_encoded_len(vk, 2, val))
             b1 == encode_varint(FromNat(len, 64), encode_key(t, LengthDelimited, b))
             b2 == IF skip_key THEN b1 ELSE scalar_encode(kk, 1, key, b1)
             b3 == IF skip_val THEN b2 ELSE scalar_encode(vk, 2, val, b2)
         IN  map_encode_with_default(kk, vk, val_default, t, Tail(values), b3)

\* map!::encode
map_encode(kk, vk, t, values, b) ==
    map_encode_with_default(kk, vk, DefaultOf(vk), t, values, b)

\* the while loop of map!::merge_with_default over the entry's sub-cursor: tag 1
\* merges the key, tag 2 the value, and for any other tag nothing is read
RECURSIVE map_merge_entry(_, _, _, _, _)
map_merge_entry(kk, vk, key, val, sub) ==
    LET merged_key(r) ==
            IF r.err # "none" THEN Fail(r.err, <<key, val>>, r.buf)
            ELSE map_merge_entry(kk, vk, r.val, val, r.buf)
        merged_val(r) ==
            IF r.err # "none" THEN Fail(r.err, <<key, val>>, r.buf)
            ELSE map_merge_entry(kk, vk, key, r.val, r.buf)
        field(k) ==
            IF k.err # "none" THEN Fail(k.err, <<key, val>>, k.buf)
            ELSE IF k.val[1] = 1 THEN merged_key(scalar_merge(kk, k.val[2], key, k.buf))
            ELSE IF k.val[1] = 2 THEN merged_val(scalar_merge(vk, k.val[2], val, k.buf))
            ELSE map_merge_entry(kk, vk, key, val, k.buf)
    IN  IF Len(sub) = 0 THEN Ok(<<key, val>>, sub)
        ELSE field(decode_key(sub))

\* mutant: the entry is merged from the whole buffer, not from the sub-cursor
\* of its length
map_merge_whole_buffer(map_ty, kk, vk, val_default, values, bs) ==
    LET insert(e) ==
            IF e.err # "none" THEN Fail(e.err, values, e.buf)
            ELSE Ok(map_insert(map_ty, kk, values, e.val[1], e.val[2]), e.buf)
        entry(l) ==
            IF l.err # "none" THEN Fail(l.err, values, l.buf)
            ELSE IF Exceeds(l.val, Len(l.buf)) THEN Fail("InvalidData", values, l.buf)
            ELSE insert(map_merge_entry(kk, vk, DefaultOf(kk), val_default, l.buf))
    IN  entry(decode_varint(bs))

\* map!::merge_with_default
map_merge_with_default(map_ty, kk, vk, val_default, values, bs) ==
    LET insert(e, rest) ==
            IF e.err # "none" THEN Fail(e.err, values, rest)
            ELSE Ok(map_insert(map_ty, kk, values, e.val[1], e.val[2]), rest)
        entry(l) ==
            IF l.err # "none" THEN Fail(l.err, values, l.buf)
            ELSE IF Exceeds(l.val, Len(l.buf)) THEN Fail("InvalidData", values, l.buf)
            ELSE insert(map_merge_entry(kk, vk, DefaultOf(kk), val_default,
                                        SubSeq(l.buf, 1, ToNat(l.val))),
                        Advance(l.buf, ToNat(l.val)))
    IN  entry(decode_varint(bs))

\* map!::merge
map_merge(map_ty, kk, vk, values, bs) ==
    map_merge_with_default(map_ty, kk, vk, DefaultOf(vk), values, bs)

\* mutant: the key and the value are counted whether or not they are written
map_encoded_len_no_skip(kk, vk, val_default, t, values) ==
    key_len(t) * Len(values)
        + Sum([i \in 1..Len(values) |->
                LET len == scalar_encoded_len(kk, 1, values[i][1])
                           + scalar_encoded_len(vk, 2, values[i][2])
                IN  encoded_len_varint(FromNat(len, 64)) + len])

\* map!::encoded_len_with_default
map_encoded_len_with_default(kk, vk, val_default, t, values) ==
    key_len(t) * Len(values)
        + Sum([i \in 1..Len(values) |->
                LET len == (IF values[i][1] = DefaultOf(kk) THEN 0
                            ELSE scalar_encoded_len(kk, 1, values[i][1]))
                           + (IF partial_eq(vk, values[i][2], val_default) THEN 0
                              ELSE scalar_encoded_len(vk, 2, values[i][2]))
                IN  encoded_len_varint(FromNat(len, 64)) + len])

\* map!::encoded_len
map_encoded_len(kk, vk, t, values) ==
    map_encoded_len_with_default(kk, vk, DefaultOf(vk), t, values)

(***************************************************************************)
(* Messages.  The Message trait (message.rs) and the nested-message codec   *)
(* (encoding.rs, mod message) are generic over the message type; the        *)
(* per-type encode, merge and length functions are the ones the schema      *)
(* gives for three message types of tests/message_encoding.rs: Basic (its   *)
(* fields int32, bools, string, enumeration_btree_map), Compound (its       *)
(* fields optional_message and required_message) and RepeatedFloats.  The   *)
(* other fields of Basic (tags 4 to 9 and 11) and of Compound (tags 3 to 5) *)
(* stay at their defaults, which are not written, and no input carries      *)
(* their tags.  An Option is <<>> for None and <<x>> for Some(x).           *)
(***************************************************************************)
RECURSIVE Message_encode(_, _, _)
RECURSIVE Message_encoded_len(_, _)
RECURSIVE Message_merge(_, _, _)

\* Default::default() of the three message types
Basic_default ==
    [int32 |-> Zero(32), bools |-> <<>>, string |-> <<>>, enumeration_btree_map |-> <<>>]

Compound_default == [optional_message |-> <<>>, required_message |-> Basic_default]

RepeatedFloats_default == [single_float |-> Zero(32), repeated_float |-> <<>>]

Message_default(ty) ==
    CASE ty = "Basic" -> Basic_default
      [] ty = "Compound" -> Compound_default
      [] ty = "RepeatedFloats" -> RepeatedFloats_default

\* message::encode: key, the varint of msg.encoded_len(), then msg.encode(buf)
message_encode(ty, t, msg, b) ==
    Message_encode(ty, msg,
        encode_varint(FromNat(Message_encoded_len(ty, msg), 64),
                      encode_key(t, LengthDelimited, b)))

\* mutant: the child is decoded afresh and replaces what the field held
message_merge_fresh(ty, wire_type, msg, bs) ==
    LET child(r, rest) == [err |-> r.err, val |-> r.val, buf |-> rest]
        delimited(l) ==
            IF l.err # "none" THEN Fail(l.err, msg, l.buf)
            ELSE IF Exceeds(l.val, Len(l.buf)) THEN Fail("InvalidData", msg, l.buf)
            ELSE child(Message_merge(ty, Message_default(ty), SubSeq(l.buf, 1, ToNat(l.val))),
                       Advance(l.buf, ToNat(l.val)))
    IN  IF ~check_wire_type(LengthDelimited, wire_type) THEN Fail("InvalidData", msg, bs)
        ELSE delimited(decode_varint(bs))

\* message::merge: msg.merge(&mut buf.split_to(len)); the outer cursor is past
\* the len bytes whatever the child's merge returns
message_merge(ty, wire_type, msg, bs) ==
    LET child(r, rest) == [err |-> r.err, val |-> r.val, buf |-> rest]
        delimited(l) ==
            IF l.err # "none" THEN Fail(l.err, msg, l.buf)
            ELSE IF Exceeds(l.val, Len(l.buf)) THEN Fail("InvalidData", msg, l.buf)
            ELSE child(Message_merge(ty, msg, SubSeq(l.buf, 1, ToNat(l.val))),
                       Advance(l.buf, ToNat(l.val)))
    IN  IF ~check_wire_type(LengthDelimited, wire_type) THEN Fail("InvalidData", msg, bs)
        ELSE delimited(decode_varint(bs))

\* message::merge_repeated
message_merge_repeated(ty, wire_type, messages, bs) ==
    LET push(r) ==
            IF r.err # "none" THEN Fail(r.err, messages, r.buf)
            ELSE Ok(Append(messages, r.val), r.buf)
    IN  IF ~check_wire_type(LengthDelimited, wire_type) THEN Fail("InvalidData", messages, bs)
        ELSE push(message_merge(ty, LengthDelimited, Message_default(ty), bs))

\* mutant: the bytes of the length prefix are left out
message_encoded_len_no_prefix(ty, t, msg) ==
    key_len(t) + Message_encoded_len(ty, msg)

\* message::encoded_len
message_encoded_len(ty, t, msg) ==
    key_len(t) + encoded_len_varint(FromNat(Message_encoded_len(ty, msg), 64))
        + Message_encoded_len(ty, msg)

\* Basic: int32 (tag 1), bools (repeated, unpacked, tag 2), string (tag 3),
\* enumeration_btree_map (BTreeMap<i32, i32>, tag 10).  A singular field that
\* equals its default is not written.
Basic_encoded_len(m) ==
    (IF m.int32 # Zero(32) THEN scalar_encoded_len("int32", 1, m.int32) ELSE 0)
        + encoded_len_repeated("bool", 2, m.bools)
        + (IF m.string # <<>> THEN scalar_encoded_len("string", 3, m.string) ELSE 0)
        + map_encoded_len_with_default("int32", "int32", Zero(32), 10, m.enumeration_btree_map)

Basic_encode(m, b) ==
    LET b1 == IF m.int32 # Zero(32) THEN scalar_encode("int32", 1, m.int32, b) ELSE b
        b2 == encode_repeated("bool", 2, m.bools, b1)
        b3 == IF m.string # <<>> THEN scalar_encode("string", 3, m.string, b2) ELSE b2
    IN  map_encode_with_default("int32", "int32", Zero(32), 10, m.enumeration_btree_map, b3)

\* the merge loop: while the input has bytes, a key is read and the field of
\* its tag merges the value; a field of an unknown tag is skipped
RECURSIVE Basic_merge(_, _)
Basic_merge(m, bs) ==
    LET put(t, r) ==
            CASE t = 1 -> [m EXCEPT !.int32 = r.val]
              [] t = 2 -> [m EXCEPT !.bools = r.val]
              [] t = 3 -> [m EXCEPT !.string = r.val]
              [] t = 10 -> [m EXCEPT !.enumeration_btree_map = r.val]
              [] OTHER -> m
        next(t, r) ==
            IF r.err # "none" THEN Fail(r.err, m, r.buf)
            ELSE Basic_merge(put(t, r), r.buf)
        field(t, wt, rest) ==
            next(t, CASE t = 1 -> scalar_merge("int32", wt, m.int32, rest)
                      [] t = 2 -> merge_repeated("bool", wt, m.bools, rest)
                      [] t = 3 -> scalar_merge("string", wt, m.string, rest)
                      [] t = 10 -> map_merge_with_default("btree_map", "int32", "int32", Zero(32),
                                        m.enumeration_btree_map, rest)
                      [] OTHER -> skip_field(wt, rest))
        key(k) ==
            IF k.err # "none" THEN Fail(k.err, m, k.buf)
            ELSE field(k.val[1], k.val[2], k.buf)
    IN  IF Len(bs) = 0 THEN Ok(m, bs) ELSE key(decode_key(bs))

\* Compound: optional_message (Option<Basic>, tag 1), required_message (Basic,
\* tag 2).  An optional field is written when it is Some, a required one always.
Compound_encoded_len(m) ==
    (IF m.optional_message # <<>>
     THEN message_encoded_len("Basic", 1, m.optional_message[1]) ELSE 0)
        + message_encoded_len("Basic", 2, m.required_message)

Compound_encode(m, b) ==
    LET b1 == IF m.optional_message # <<>>
              THEN message_encode("Basic", 1, m.optional_message[1], b) ELSE b
    IN  message_encode("Basic", 2, m.required_message, b1)

RECURSIVE Compound_merge(_, _)
Compound_merge(m, bs) ==
    LET put(t, r) ==
            CASE t = 1 -> [m EXCEPT !.optional_message = <<r.val>>]
              [] t = 2 -> [m EXCEPT !.required_message = r.val]
              [] OTHER -> m
        next(t, r) ==
            IF r.err # "none" THEN Fail(r.err, m, r.buf)
            ELSE Compound_merge(put(t, r), r.buf)
        field(t, wt, rest) ==
            next(t, CASE t = 1 ->
                            message_merge("Basic", wt,
                                IF m.optional_message = <<>> THEN Basic_default
                                ELSE m.optional_message[1],
                                rest)
                      [] t = 2 -> message_merge("Basic", wt, m.required_message, rest)
                      [] OTHER -> skip_field(wt, rest))
        key(k) ==
            IF k.err # "none" THEN Fail(k.err, m, k.buf)
            ELSE field(k.val[1], k.val[2], k.buf)
    IN  IF Len(bs) = 0 THEN Ok(m, bs) ELSE key(decode_key(bs))

\* RepeatedFloats: single_float (tag 11), repeated_float (repeated, packed, tag 41)
RepeatedFloats_encoded_len(m) ==
    (IF ~f32_eq(m.single_float, Zero(32))
     THEN scalar_encoded_len("float", 11, m.single_float) ELSE 0)
        + encoded_len_packed("float", 41, m.repeated_float)

RepeatedFloats_encode(m, b) ==
    LET b1 == IF ~f32_eq(m.single_float, Zero(32))
              THEN scalar_encode("float", 11, m.single_float, b) ELSE b
    IN  encode_packed("float", 41, m.repeated_float, b1)

RECURSIVE RepeatedFloats_merge(_, _)
RepeatedFloats_merge(m, bs) ==
    LET put(t, r) ==
            CASE t = 11 -> [m EXCEPT !.single_float = r.val]
              [] t = 41 -> [m EXCEPT !.repeated_float = r.val]
              [] OTHER -> m
        next(t, r) ==
            IF r.err # "none" THEN Fail(r.err, m, r.buf)
            ELSE RepeatedFloats_merge(put(t, r), r.buf)
        field(t, wt, rest) ==
            next(t, CASE t = 11 -> scalar_merge("float", wt, m.single_float, rest)
                      [] t = 41 -> merge_repeated("float", wt, m.repeated_float, rest)
                      [] OTHER -> skip_field(wt, rest))
        key(k) ==
            IF k.err # "none" THEN Fail(k.err, m, k.buf)
            ELSE field(k.val[1], k.val[2], k.buf)
    IN  IF Len(bs) = 0 THEN Ok(m, bs) ELSE key(decode_key(bs))

\* Message::encoded_len_with_queue, encode_with_queue and merge of each type
encoded_len_with_queue(ty, m) ==
    CASE ty = "Basic" -> Basic_encoded_len(m)
      [] ty = "Compound" -> Compound_encoded_len(m)
      [] ty = "RepeatedFloats" -> RepeatedFloats_encoded_len(m)

encode_with_queue(ty, m, b) ==
    CASE ty = "Basic" -> Basic_encode(m, b)
      [] ty = "Compound" -> Compound_encode(m, b)
      [] ty = "RepeatedFloats" -> RepeatedFloats_encode(m, b)

Message_merge(ty, m, bs) ==
    CASE ty = "Basic" -> Basic_merge(m, bs)
      [] ty = "Compound" -> Compound_merge(m, bs)
      [] ty = "RepeatedFloats" -> RepeatedFloats_merge(m, bs)

\* Message::encoded_len: the length pass (the source spells the call
\* encoded_len_with_queu; the method of the trait is meant)
Message_encoded_len(ty, m) == encoded_len_with_queue(ty, m)

\* Message::encode: buf.reserve(len), then the emission pass
Message_encode(ty, m, b) ==
    encode_with_queue(ty, m, Reserve(b, encoded_len_with_queue(ty, m)))

\* Message::decode: Self::default(), then merge
Message_decode(ty, bs) == Message_merge(ty, Message_default(ty), bs)

\* Message::encode_length_delimited
Message_encode_length_delimited(ty, m, b) ==
    LET len == encoded_len_with_queue(ty, m)
    IN  encode_with_queue(ty, m,
            encode_varint(FromNat(len, 64),
                          Reserve(b, len + encoded_len_varint(FromNat(len, 64)))))

\* mutant: the message is merged from the whole buffer, not from the sub-cursor
\* of its length
Message_merge_length_delimited_unsplit(ty, m, bs) ==
    LET delimited(l) ==
            IF l.err # "none" THEN Fail(l.err, m, l.buf)
            ELSE IF Exceeds(l.val, Len(l.buf)) THEN Fail("InvalidInput", m, l.buf)
            ELSE Message_merge(ty, m, l.buf)
    IN  delimited(decode_varint(bs))

\* Message::merge_length_delimited: self.merge(&mut buf.split_to(len)); the
\* cursor is past the len bytes whatever merge returns
Message_merge_length_delimited(ty, m, bs) ==
    LET child(r, rest) == [err |-> r.err, val |-> r.val, buf |-> rest]
        delimited(l) ==
            IF l.err # "none" THEN Fail(l.err, m, l.buf)
            ELSE IF Exceeds(l.val, Len(l.buf)) THEN Fail("InvalidInput", m, l.buf)
            ELSE child(Message_merge(ty, m, SubSeq(l.buf, 1, ToNat(l.val))),
                       Advance(l.buf, ToNat(l.val)))
    IN  delimited(decode_varint(bs))

\* Message::decode_length_delimited: Self::default(), then merge_length_delimited
Message_decode_length_delimited(ty, bs) ==
    Message_merge_length_delimited(ty, Message_default(ty), bs)

\* PartialEq as derived for the three types: field by field
Message_eq(ty, a, b) ==
    IF ty = "RepeatedFloats"
    THEN /\ f32_eq(a.single_float, b.single_float)
         /\ Len(a.repeated_float) = Len(b.repeated_float)
         /\ \A i \in 1..Len(a.repeated_float) : f32_eq(a.repeated_float[i], b.repeated_float[i])
    ELSE a = b

(***************************************************************************)
(* Inputs                                                                  *)
(***************************************************************************)
\* largest capacity tried for the buffer a varint is encoded into
MaxSpare == 11

\* most continuation bytes in a raw input
MaxCont == 11

\* u64 values at every length boundary: 2^k - 1 and 2^k
U64Values == {LowOnes(k, 64) : k \in 0..64} \cup {Pow2(k, 64) : k \in 0..63}

\* tags at the key length boundaries, 1 .. 2^29 - 1
Tags == {MIN_TAG, 15, 16, 2047, 2048, 262143, 262144, 33554431, 33554432, MAX_TAG}

FollowBytes == {<<>>, <<128, 1>>}

FirstBytes == {<<>>, <<128>>, <<129>>, <<130>>, <<131>>, <<133>>, <<136>>, <<248>>}

ContBytes == {128, 255}

LastBytes == {<<>>, <<0>>, <<1>>, <<2>>, <<3>>, <<4>>, <<5>>, <<6>>, <<7>>, <<8>>,
              <<15>>, <<16>>, <<127>>}

\* raw inputs: an optional first byte, continuation bytes, an optional last byte
RawInputs ==
    {f \o Rep(c, n) \o l : f \in FirstBytes, c \in ContBytes, n \in 0..MaxCont, l \in LastBytes}

\* buffers handed to skip_field: a first byte (a length, or a varint) and a payload
SkipInputs ==
    {f \o Rep(c, n) : f \in {<<>>, <<0>>, <<1>>, <<3>>, <<4>>, <<8>>, <<9>>, <<127>>, <<128, 1>>},
                      c \in {7, 255}, n \in 0..MaxCont}
        \cup {<<128, 1>> \o Rep(7, n) : n \in {127, 128, 129}}
        \cup {Rep(255, 9) \o <<1, 7>>, Rep(128, 9) \o <<0, 7>>, Rep(128, 3) \o <<0, 7>>}

Idle == <<>>

\* longest list of a repeated field
MaxList == 2

\* the length of the one long packed run (its length prefix takes two bytes)
LongRun == 16

\* f32 / f64 NaN bit patterns 0x7FC00000 and 0x7FF8000000000000
NaN32 == [i \in 1..32 |-> IF i \in 23..31 THEN 1 ELSE 0]

NaN64 == [i \in 1..64 |-> IF i \in 52..63 THEN 1 ELSE 0]

\* 0, 1, -1 (all ones), MIN (the sign bit alone: -0.0 for floats), MAX, NaN
Values32 == {Zero(32), Pow2(0, 32), Ones(32), Pow2(31, 32), LowOnes(31, 32), NaN32}

Values64 == {Zero(64), Pow2(0, 64), Ones(64), Pow2(63, 64), LowOnes(63, 64), NaN64}

\* "", "a", "e-acute", the euro sign, and a string whose length takes two bytes
Strings == {<<>>, <<97>>, <<195, 169>>, <<226, 130, 172>>, Rep(97, 128)}

ByteStrings == {<<>>, <<0>>, <<255, 128>>, Rep(7, 128)}

ValuesOf(k) ==
    CASE k = "bool" -> {TRUE, FALSE}
      [] k \in {"int32", "uint32", "sint32"} \cup Fixed32Kinds -> Values32
      [] k \in {"int64", "uint64", "sint64"} \cup Fixed64Kinds -> Values64
      [] k = "string" -> Strings
      [] k = "bytes" -> ByteStrings

\* the elements lists are made of: 0, -1, MIN
ElementsOf(k) ==
    CASE k = "bool" -> {TRUE, FALSE}
      [] k \in {"int32", "uint32", "sint32"} \cup Fixed32Kinds ->
            {Zero(32), Ones(32), Pow2(31, 32)}
      [] k \in {"int64", "uint64", "sint64"} \cup Fixed64Kinds ->
            {Zero(64), Ones(64), Pow2(63, 64)}
      [] k = "string" -> {<<>>, <<97>>, <<195, 169>>}
      [] k = "bytes" -> {<<>>, <<0>>, <<255, 128>>}

\* the lists of at most n elements
ListsOf(k, n) == UNION {[1..m -> ElementsOf(k)] : m \in 0..n}

\* tags whose keys take 1, 2 and 5 bytes
ListTags == {MIN_TAG, 16, MAX_TAG}

(***************************************************************************)
(* The primitives driven as test::varint drives them                       *)
(***************************************************************************)
InitVarint ==
    /\ pc = "varint_start"
    /\ kind = "varint"
    /\ tag = 0
    /\ value \in U64Values
    /\ \E c \in 0..MaxSpare : wbuf = WithCapacity(c)
    /\ buf = <<>>
    /\ follow \in FollowBytes
    /\ expected_len = 0 /\ dst = Idle /\ res = Idle /\ mode = "single" /\ prior = Idle

InitKey ==
    /\ pc = "key_start"
    /\ kind \in WireTypes
    /\ tag \in Tags
    /\ value = Idle
    /\ wbuf = WithCapacity(key_len(tag))
    /\ buf = <<>>
    /\ follow \in FollowBytes
    /\ expected_len = 0 /\ dst = Idle /\ res = Idle /\ mode = "single" /\ prior = Idle

InitRaw ==
    /\ pc = "raw"
    /\ kind = "raw"
    /\ tag = 0
    /\ value \in RawInputs
    /\ follow \in FollowBytes
    /\ buf = value \o follow
    /\ wbuf = WithCapacity(0)
    /\ expected_len = 0 /\ dst = Idle /\ res = Idle /\ mode = "single" /\ prior = Idle

InitSkip ==
    /\ pc = "skip_start"
    /\ kind \in WireTypes
    /\ tag = 0
    /\ value \in SkipInputs
    /\ follow = <<>>
    /\ buf = value
    /\ wbuf = WithCapacity(0)
    /\ expected_len = 0 /\ dst = Idle /\ res = Idle /\ mode = "single" /\ prior = Idle

InitWire == InitVarint \/ InitKey \/ InitRaw

\* encode_varint(value, &mut buf), then the buffer is frozen and read back
EncodeVarint ==
    /\ pc = "varint_start"
    /\ wbuf' = encode_varint(value, wbuf)
    /\ buf' = wbuf'.data \o follow
    /\ pc' = IF wbuf'.panic THEN "varint_panicked" ELSE "varint_encoded"
    /\ UNCHANGED <<kind, tag, value, expected_len, dst, res, follow, mode, prior>>

DecodeVarint ==
    /\ pc \in {"varint_encoded", "raw"}
    /\ res' = decode_varint(buf)
    /\ buf' = res'.buf
    /\ pc' = IF pc = "raw" THEN "raw_varint_done" ELSE "varint_done"
    /\ UNCHANGED <<kind, tag, value, wbuf, expected_len, dst, follow, mode, prior>>

EncodeKey ==
    /\ pc = "key_start"
    /\ wbuf' = encode_key(tag, kind, wbuf)
    /\ buf' = wbuf'.data \o follow
    /\ pc' = IF wbuf'.panic THEN "key_panicked" ELSE "key_encoded"
    /\ UNCHANGED <<kind, tag, value, expected_len, dst, res, follow, mode, prior>>

DecodeKey ==
    /\ pc \in {"key_encoded", "raw"}
    /\ res' = decode_key(buf)
    /\ buf' = res'.buf
    /\ pc' = IF pc = "raw" THEN "raw_key_done" ELSE "key_done"
    /\ UNCHANGED <<kind, tag, value, wbuf, expected_len, dst, follow, mode, prior>>

SkipField ==
    /\ pc = "skip_start"
    /\ res' = skip_field(kind, buf)
    /\ buf' = res'.buf
    /\ pc' = "skip_done"
    /\ UNCHANGED <<kind, tag, value, wbuf, expected_len, dst, follow, mode, prior>>

NextWire == EncodeVarint \/ DecodeVarint \/ EncodeKey \/ DecodeKey

SpecWire == InitWire /\ [][NextWire]_vars

(***************************************************************************)
(* Claims about the primitives, checked under SpecWire                     *)
(***************************************************************************)
\* the length the table gives: k when v < 2^(7k) for k in 1..9, otherwise 10
TableLen(v) ==
    IF \E k \in 1..9 : Below(v, 7 * k)
    THEN CHOOSE k \in 1..9 : Below(v, 7 * k) /\ \A j \in 1..(k - 1) : ~Below(v, 7 * j)
    ELSE 10

\* C3: encode_varint(v) into a buffer with at least encoded_len_varint(v) spare
\* bytes does not panic and appends exactly encoded_len_varint(v) bytes, the
\* length the table gives; decode_varint of those bytes returns v and consumes
\* exactly those bytes (what follows them in the stream is left).
C3_VarintRoundTrip ==
    /\ (pc \in {"varint_encoded", "varint_done", "varint_panicked"}
            /\ wbuf.cap >= encoded_len_varint(value))
        => /\ ~wbuf.panic
           /\ Len(wbuf.data) = encoded_len_varint(value)
           /\ encoded_len_varint(value) = TableLen(value)
    /\ pc = "varint_done"
        => /\ res.err = "none"
           /\ res.val = value
           /\ buf = follow

\* 2^64 - 1 written into exactly ten spare bytes and read back, bytes following
C3_Witness ==
    /\ pc = "varint_done"
    /\ value = Ones(64)
    /\ wbuf.cap = 10
    /\ Len(wbuf.data) = 10
    /\ follow # <<>>

\* the position of the first byte with the high bit clear among the first ten, or 0
FirstTerminator(bs) ==
    LET T == {i \in 1..Min(10, Len(bs)) : bs[i] < 128}
    IN  IF T = {} THEN 0 ELSE CHOOSE i \in T : \A j \in T : i <= j

\* C4: decode_varint fails, with an invalid-data error, exactly when (a) the input
\* ends before a byte with the high bit clear or (b) ten bytes are read and the
\* tenth has the continuation bit set; otherwise it succeeds and consumes the
\* bytes up to and including the terminating byte, no more.
C4_DecodeVarintFailure ==
    pc = "raw_varint_done"
    => LET inp == value \o follow
           endsEarly == Len(inp) < 10 /\ \A i \in 1..Len(inp) : inp[i] >= 128
           tenCont == Len(inp) >= 10 /\ \A i \in 1..10 : inp[i] >= 128
       IN  /\ (res.err # "none") <=> (endsEarly \/ tenCont)
           /\ res.err # "none" => res.err = "InvalidData"
           /\ res.err = "none" => buf = Advance(inp, FirstTerminator(inp))

\* a non-minimal ten-byte encoding is accepted and the bytes after it are left
C4_Witness ==
    /\ pc = "raw_varint_done"
    /\ res.err = "none"
    /\ Len(value) = 10
    /\ value[10] = 0
    /\ buf = follow
    /\ follow # <<>>

\* C5: decode_key reads a varint k and fails if k > 2^32 - 1, if k & 7 is one of
\* 3, 4, 6, 7, or if k >> 3 = 0; otherwise it returns (k >> 3, k & 7).  For the
\* tags of 1 .. 2^29 - 1 and the wire types 0, 1, 2, 5 decode_key(encode_key(tag,
\* wt)) = (tag, wt) and the key takes exactly key_len(tag) bytes, 1 to 5.
C5_KeyCodec ==
    /\ pc = "raw_key_done"
        => LET k == decode_varint(value \o follow)
               bad == \/ ~Below(k.val, 32)
                      \/ ToNat(Trunc(k.val, 3)) \in {3, 4, 6, 7}
                      \/ Shr(k.val, 3) = Zero(64)
           IN  /\ k.err # "none" => res.err # "none"
               /\ k.err = "none"
                   => /\ (res.err # "none") <=> bad
                      /\ ~bad => /\ res.val = <<ToNat(Shr(k.val, 3)), ToNat(Trunc(k.val, 3))>>
                                 /\ buf = k.buf
    /\ pc # "key_panicked"
    /\ pc \in {"key_encoded", "key_done"}
        => /\ Len(wbuf.data) = key_len(tag)
           /\ key_len(tag) \in 1..5
    /\ pc = "key_done"
        => /\ res.err = "none"
           /\ res.val = <<tag, kind>>
           /\ buf = follow

\* the largest tag with a 32-bit wire type round-trips through a five-byte key
C5_Witness ==
    /\ pc = "key_done"
    /\ tag = MAX_TAG
    /\ kind = ThirtyTwoBit
    /\ Len(wbuf.data) = 5
    /\ res.val = <<MAX_TAG, ThirtyTwoBit>>

(***************************************************************************)
(* The scalar codecs driven as test::check_type and                        *)
(* test::check_collection_type drive them                                  *)
(***************************************************************************)
InitType ==
    /\ pc = "type_start"
    /\ kind \in ScalarKinds
    /\ \/ /\ mode = "single"
          /\ value \in ValuesOf(kind)
          /\ tag \in Tags
          /\ dst = DefaultOf(kind)
       \/ /\ mode = "repeated"
          /\ value \in ListsOf(kind, MaxList)
          /\ tag \in ListTags
          /\ dst = <<>>
       \/ /\ mode = "packed"
          /\ kind \in NumericKinds
          /\ value \in ListsOf(kind, MaxList) \cup {Rep(v, LongRun) : v \in ElementsOf(kind)}
          /\ tag \in ListTags
          /\ dst = <<>>
    /\ wbuf = WithCapacity(0)
    /\ buf = <<>>
    /\ follow = <<>>
    /\ expected_len = 0
    /\ res = Idle
    /\ prior = dst

\* the wire type the harness is told to expect
ExpectedWireType == IF mode = "packed" THEN LengthDelimited ELSE NaturalWireType(kind)

\* let expected_len = encoded_len(tag, &value);
TypeEncodedLen ==
    /\ pc = "type_start"
    /\ expected_len' = CASE mode = "single" -> scalar_encoded_len(kind, tag, value)
                          [] mode = "repeated" -> encoded_len_repeated(kind, tag, value)
                          [] mode = "packed" -> encoded_len_packed(kind, tag, value)
    /\ pc' = "type_len"
    /\ UNCHANGED <<kind, tag, value, wbuf, buf, dst, res, follow, mode, prior>>

\* let mut buf = BytesMut::with_capacity(expected_len); encode(tag, &value, &mut buf);
\* the buffer is frozen; an empty buffer ends check_type at once
TypeEncode ==
    /\ pc = "type_len"
    /\ wbuf' = CASE mode = "single" -> scalar_encode(kind, tag, value, WithCapacity(expected_len))
                  [] mode = "repeated" -> encode_repeated(kind, tag, value, WithCapacity(expected_len))
                  [] mode = "packed" -> encode_packed(kind, tag, value, WithCapacity(expected_len))
    /\ buf' = wbuf'.data
    /\ pc' = IF wbuf'.panic THEN "type_panicked"
             ELSE IF Len(buf') = 0 THEN "type_done"
             ELSE "type_encoded"
    /\ UNCHANGED <<kind, tag, value, expected_len, dst, res, follow, mode, prior>>

\* decode_key(&mut buf)
TypeDecodeKey ==
    /\ pc = "type_encoded"
    /\ res' = decode_key(buf)
    /\ buf' = res'.buf
    /\ pc' = IF res'.err # "none" THEN "type_error" ELSE "type_key"
    /\ UNCHANGED <<kind, tag, value, wbuf, expected_len, dst, follow, mode, prior>>

\* merge(wire_type, &mut roundtrip_value, &mut buf); check_collection_type loops
\* while the buffer has bytes remaining
TypeMerge ==
    /\ pc = "type_key"
    /\ res' = IF mode = "single" THEN scalar_merge(kind, res.val[2], dst, buf)
              ELSE merge_repeated(kind, res.val[2], dst, buf)
    /\ dst' = res'.val
    /\ buf' = res'.buf
    /\ pc' = IF res'.err # "none" THEN "type_error"
             ELSE IF mode = "repeated" /\ Len(buf') > 0 THEN "type_encoded"
             ELSE "type_done"
    /\ UNCHANGED <<kind, tag, value, wbuf, expected_len, follow, mode, prior>>

NextType == TypeEncodedLen \/ TypeEncode \/ TypeDecodeKey \/ TypeMerge

SpecType == InitType /\ [][NextType]_vars

\* C2: for every scalar kind, value and tag, encode writes exactly encoded_len
\* bytes into a buffer of that capacity; every key read back is (tag, natural
\* wire type), or (tag, LengthDelimited) for a packed run; merging into a default
\* value never fails, gives back the value bit for bit, and empties the buffer.
\* The same holds for the repeated and the packed forms.
C2_FieldRoundTrip ==
    /\ pc \notin {"type_panicked", "type_error"}
    /\ pc \in {"type_encoded", "type_key", "type_done"} => Len(wbuf.data) = expected_len
    /\ pc = "type_key" => res.val = <<tag, ExpectedWireType>>
    /\ pc = "type_done" => dst = value /\ buf = <<>>

\* a NaN float under the largest tag has come back, eight bytes long
C2_Witness ==
    /\ pc = "type_done"
    /\ kind = "float"
    /\ mode = "single"
    /\ tag = MAX_TAG
    /\ value = NaN32
    /\ dst = NaN32
    /\ expected_len = 9

(***************************************************************************)
(* A repeated numeric field read from a stream of packed runs and unpacked *)
(* occurrences (merge_repeated_numeric!)                                   *)
(***************************************************************************)
\* longest second segment of a stream
MaxSecond == 1

\* the values a stream is made of: the default, and true / all ones
StreamElements(k) == {DefaultOf(k), IF k = "bool" THEN TRUE ELSE Ones(Len(DefaultOf(k)))}

Segments(k, n) == [packed : BOOLEAN, vs : UNION {[1..m -> StreamElements(k)] : m \in 0..n}]

\* one segment written in its form
encode_segment(k, t, seg, b) ==
    IF seg.packed THEN encode_packed(k, t, seg.vs, b) ELSE encode_repeated(k, t, seg.vs, b)

encoded_len_segment(k, t, seg) ==
    IF seg.packed THEN encoded_len_packed(k, t, seg.vs) ELSE encoded_len_repeated(k, t, seg.vs)

InitStream ==
    /\ pc = "stream_start"
    /\ kind \in NumericKinds
    /\ mode = "repeated"
    /\ tag = 16
    /\ \E s1 \in Segments(kind, MaxList), s2 \in Segments(kind, MaxSecond) : value = <<s1, s2>>
    /\ prior \in {<<>>, <<DefaultOf(kind)>>}
    /\ dst = prior
    /\ wbuf = WithCapacity(0)
    /\ buf = <<>>
    /\ follow = <<>>
    /\ expected_len = 0
    /\ res = Idle

\* both segments are written, one after the other, into a buffer of their size
StreamEncode ==
    /\ pc = "stream_start"
    /\ expected_len' = encoded_len_segment(kind, tag, value[1])
                            + encoded_len_segment(kind, tag, value[2])
    /\ wbuf' = encode_segment(kind, tag, value[2],
                    encode_segment(kind, tag, value[1], WithCapacity(expected_len')))
    /\ buf' = wbuf'.data
    /\ pc' = IF wbuf'.panic THEN "stream_panicked"
             ELSE IF Len(buf') = 0 THEN "stream_done"
             ELSE "stream_encoded"
    /\ UNCHANGED <<kind, tag, value, dst, res, follow, mode, prior>>

StreamDecodeKey ==
    /\ pc = "stream_encoded"
    /\ res' = decode_key(buf)
    /\ buf' = res'.buf
    /\ pc' = IF res'.err # "none" THEN "stream_error" ELSE "stream_key"
    /\ UNCHANGED <<kind, tag, value, wbuf, expected_len, dst, follow, mode, prior>>

\* the field's handler: merge_repeated with the wire type of the key
StreamMerge ==
    /\ pc = "stream_key"
    /\ res' = merge_repeated(kind, res.val[2], dst, buf)
    /\ dst' = res'.val
    /\ buf' = res'.buf
    /\ pc' = IF res'.err # "none" THEN "stream_error"
             ELSE IF Len(buf') > 0 THEN "stream_encoded"
             ELSE "stream_done"
    /\ UNCHANGED <<kind, tag, value, wbuf, expected_len, follow, mode, prior>>

NextStream == StreamEncode \/ StreamDecodeKey \/ StreamMerge

SpecStream == InitStream /\ [][NextStream]_vars

\* C6: for every numeric kind, merge_repeated applied to the unpacked encoding of
\* a list and to its packed encoding both append exactly the list, in order, to
\* the destination, and a stream that mixes packed runs and unpacked occurrences
\* of the tag yields all the values in wire order; no merge fails.
C6_PackedTolerance ==
    /\ pc \notin {"stream_panicked", "stream_error"}
    /\ pc = "stream_done" => dst = prior \o value[1].vs \o value[2].vs

\* a packed run of two followed by an unpacked occurrence, onto a non-empty list
C6_Witness ==
    /\ pc = "stream_done"
    /\ value[1].packed /\ Len(value[1].vs) = 2
    /\ ~value[2].packed /\ Len(value[2].vs) = 1
    /\ Len(prior) = 1
    /\ Len(dst) = 4

(***************************************************************************)
(* One field occurrence merged twice into a destination that holds a value *)
(***************************************************************************)
InitOverwrite ==
    /\ pc = "ow_start"
    /\ kind \in ScalarKinds
    /\ mode = "single"
    /\ tag \in {MIN_TAG, MAX_TAG}
    /\ value \in ValuesOf(kind)
    /\ prior \in ValuesOf(kind)
    /\ dst = prior
    /\ wbuf = WithCapacity(0)
    /\ buf = <<>>
    /\ follow = <<>>
    /\ expected_len = 0
    /\ res = Idle

OverwriteEncode ==
    /\ pc = "ow_start"
    /\ expected_len' = scalar_encoded_len(kind, tag, value)
    /\ wbuf' = scalar_encode(kind, tag, value, WithCapacity(expected_len'))
    /\ buf' = wbuf'.data
    /\ pc' = "ow_encoded"
    /\ UNCHANGED <<kind, tag, value, dst, res, follow, mode, prior>>

\* the key is read and the field's merge is called on the bytes after it
OverwriteMerge ==
    /\ pc \in {"ow_encoded", "ow_once"}
    /\ \E k \in {decode_key(wbuf.data)} : res' = scalar_merge(kind, k.val[2], dst, k.buf)
    /\ dst' = res'.val
    /\ buf' = res'.buf
    /\ pc' = IF pc = "ow_encoded" THEN "ow_once" ELSE "ow_twice"
    /\ UNCHANGED <<kind, tag, value, wbuf, expected_len, follow, mode, prior>>

NextOverwrite == OverwriteEncode \/ OverwriteMerge

SpecOverwrite == InitOverwrite /\ [][NextOverwrite]_vars

\* C9: merging a singular scalar overwrites the destination: for every scalar
\* kind, after merge succeeds the destination equals the value decoded from the
\* wire whatever it held before, so merging the same bytes twice gives the same
\* result as merging them once.
C9_MergeOverwrites ==
    pc \in {"ow_once", "ow_twice"} => res.err = "none" /\ dst = value

(***************************************************************************)
(* Messages driven as check_message drives them                            *)
(***************************************************************************)
MessageTypes == {"Basic", "Compound", "RepeatedFloats"}

\* maps of no entry, of an entry that is all defaults, of a default key, and
\* of two entries, -1 before 1
Maps ==
    {<<>>,
     <<<<Zero(32), Zero(32)>>>>,
     <<<<Zero(32), Pow2(0, 32)>>>>,
     <<<<Ones(32), Pow2(0, 32)>>, <<Pow2(0, 32), Zero(32)>>>>}

BasicValues ==
    [int32 : {Zero(32), Pow2(0, 32), Ones(32)},
     bools : ListsOf("bool", MaxList),
     string : {<<>>, <<195, 169>>},
     enumeration_btree_map : Maps]

\* the children of a Compound: the default, one with every field set, and one
\* whose encoding is long enough for a two-byte length prefix
Children ==
    {Basic_default,
     [int32 |-> Ones(32), bools |-> <<TRUE, FALSE>>, string |-> <<97>>,
      enumeration_btree_map |-> <<<<Ones(32), Pow2(0, 32)>>, <<Pow2(0, 32), Zero(32)>>>>],
     [Basic_default EXCEPT !.string = Rep(97, 128)]}

CompoundValues ==
    [optional_message : {<<>>} \cup {<<c>> : c \in Children}, required_message : Children]

RepeatedFloatsValues ==
    [single_float : Values32, repeated_float : ListsOf("float", MaxList)]

MessagesOf(ty) ==
    CASE ty = "Basic" -> BasicValues
      [] ty = "Compound" -> CompoundValues
      [] ty = "RepeatedFloats" -> RepeatedFloatsValues

InitMessage ==
    /\ pc = "msg_start"
    /\ kind \in MessageTypes
    /\ value \in MessagesOf(kind)
    /\ tag = 0
    /\ mode = "single"
    /\ wbuf = WithCapacity(0)
    /\ buf = <<>>
    /\ follow = <<>>
    /\ expected_len = 0
    /\ dst = Idle
    /\ res = Idle
    /\ prior = Idle

\* let expected_len = msg.encoded_len();
MessageEncodedLen ==
    /\ pc = "msg_start"
    /\ expected_len' = Message_encoded_len(kind, value)
    /\ pc' = "msg_len"
    /\ UNCHANGED <<kind, tag, value, wbuf, buf, dst, res, follow, mode, prior>>

\* let mut buf = BytesMut::with_capacity(expected_len); msg.encode(&mut buf);
MessageEncode ==
    /\ pc = "msg_len"
    /\ wbuf' = Message_encode(kind, value, WithCapacity(expected_len))
    /\ buf' = wbuf'.data
    /\ pc' = IF wbuf'.panic THEN "msg_panicked" ELSE "msg_encoded"
    /\ UNCHANGED <<kind, tag, value, expected_len, dst, res, follow, mode, prior>>

\* let roundtrip = M::decode(&mut buf).unwrap();
MessageDecode ==
    /\ pc = "msg_encoded"
    /\ res' = Message_decode(kind, buf)
    /\ dst' = res'.val
    /\ buf' = res'.buf
    /\ pc' = IF res'.err # "none" THEN "msg_error" ELSE "msg_done"
    /\ UNCHANGED <<kind, tag, value, wbuf, expected_len, follow, mode, prior>>

NextMessage == MessageEncodedLen \/ MessageEncode \/ MessageDecode

SpecMessage == InitMessage /\ [][NextMessage]_vars

\* a float field comes back equal, or it is a NaN and comes back bit for bit
f32_same(a, b) == f32_eq(a, b) \/ (f32_is_nan(a) /\ a = b)

\* C1, as amended: for every message value M, Message::encode appends exactly
\* Message::encoded_len(M) bytes without running out of space, and
\* Message::decode of those bytes succeeds, leaves no byte in the buffer and
\* returns a value whose fields equal those of M, where a float field that is
\* NaN in M (and so equal to nothing) comes back as the same NaN, bit for bit.
C1_MessageRoundTrip ==
    /\ pc \notin {"msg_panicked", "msg_error"}
    /\ pc \in {"msg_encoded", "msg_done"} => Len(wbuf.data) = expected_len
    /\ pc = "msg_done"
        => /\ buf = <<>>
           /\ IF kind = "RepeatedFloats"
              THEN /\ f32_same(value.single_float, dst.single_float)
                   /\ Len(dst.repeated_float) = Len(value.repeated_float)
                   /\ \A i \in 1..Len(value.repeated_float) :
                        f32_same(value.repeated_float[i], dst.repeated_float[i])
              ELSE dst = value

\* a message whose single float and second packed float are NaNs has come back
\* with the bits of both, sixteen bytes long
C1_Witness ==
    /\ pc = "msg_done"
    /\ kind = "RepeatedFloats"
    /\ value.single_float = NaN32
    /\ Len(value.repeated_float) = 2
    /\ value.repeated_float[2] = Ones(32)
    /\ dst = value
    /\ expected_len = 16

\* C1, as stated: the decoded value equals M under the message's equality
C1_AsStated ==
    /\ pc \notin {"msg_panicked", "msg_error"}
    /\ pc \in {"msg_encoded", "msg_done"} => Len(wbuf.data) = expected_len
    /\ pc = "msg_done" => buf = <<>> /\ Message_eq(kind, dst, value)

(***************************************************************************)
(* skip_field on raw buffers, and a field of an unknown tag put into the    *)
(* encoding of a message at a field boundary                                *)
(***************************************************************************)
\* the bytes encode_key and encode_varint write
KeyBytes(t, wire_type) == encode_key(t, wire_type, WithCapacity(5)).data

VarintBytes(n) == encode_varint(FromNat(n, 64), WithCapacity(10)).data

\* tags no field of Basic (tags 1 to 11) or Compound (tags 1 to 5) has
UnknownTags == {12, MAX_TAG}

\* well-formed fields of tag t, of each wire type; some payloads read as fields
InjectedFields(t) ==
    {KeyBytes(t, Varint) \o p : p \in {<<0>>, <<128, 1>>, Rep(255, 9) \o <<1>>}}
        \cup {KeyBytes(t, ThirtyTwoBit) \o <<8, 1, 8, 1>>}
        \cup {KeyBytes(t, SixtyFourBit) \o <<8, 1, 16, 1, 26, 1, 97, 0>>}
        \cup {KeyBytes(t, LengthDelimited) \o VarintBytes(Len(p)) \o p :
                p \in {<<>>, <<8, 1>>, Rep(255, 128)}}

\* the lengths of the field occurrences of an encoding, in the order written
FieldLens(ty, m) ==
    IF ty = "Basic"
    THEN (IF m.int32 # Zero(32) THEN <<scalar_encoded_len("int32", 1, m.int32)>> ELSE <<>>)
            \o [i \in 1..Len(m.bools) |-> scalar_encoded_len("bool", 2, m.bools[i])]
            \o (IF m.string # <<>> THEN <<scalar_encoded_len("string", 3, m.string)>> ELSE <<>>)
            \o [i \in 1..Len(m.enumeration_btree_map) |->
                    map_encoded_len_with_default("int32", "int32", Zero(32), 10,
                                                 <<m.enumeration_btree_map[i]>>)]
    ELSE (IF m.optional_message # <<>>
          THEN <<message_encoded_len("Basic", 1, m.optional_message[1])>> ELSE <<>>)
            \o <<message_encoded_len("Basic", 2, m.required_message)>>

\* the offsets at which a field of the encoding starts or the encoding ends
FieldBoundaries(ty, m) ==
    {Sum(SubSeq(FieldLens(ty, m), 1, i)) : i \in 0..Len(FieldLens(ty, m))}

InjectMessages(ty) == IF ty = "Basic" THEN Children ELSE CompoundValues

InitInject ==
    /\ pc = "inj_start"
    /\ kind \in {"Basic", "Compound"}
    /\ tag \in UnknownTags
    /\ mode = "inject"
    /\ \E m \in InjectMessages(kind), f \in InjectedFields(tag) :
         \E at \in FieldBoundaries(kind, m) : value = [msg |-> m, field |-> f, at |-> at]
    /\ wbuf = WithCapacity(0)
    /\ buf = <<>>
    /\ follow = <<>>
    /\ expected_len = 0
    /\ dst = Idle
    /\ res = Idle
    /\ prior = Idle

InitSkipping == InitSkip \/ InitInject

\* the message is encoded and the field is put in at the boundary
InjectEncode ==
    /\ pc = "inj_start"
    /\ expected_len' = Message_encoded_len(kind, value.msg)
    /\ wbuf' = Message_encode(kind, value.msg, WithCapacity(expected_len'))
    /\ buf' = SubSeq(wbuf'.data, 1, value.at) \o value.field \o Advance(wbuf'.data, value.at)
    /\ pc' = "inj_encoded"
    /\ UNCHANGED <<kind, tag, value, dst, res, follow, mode, prior>>

\* the decode of the clean encoding
InjectDecodeClean ==
    /\ pc = "inj_encoded"
    /\ prior' = Message_decode(kind, wbuf.data)
    /\ pc' = "inj_clean"
    /\ UNCHANGED <<kind, tag, value, wbuf, buf, expected_len, dst, res, follow, mode>>

\* the decode of the encoding with the field in it
InjectDecode ==
    /\ pc = "inj_clean"
    /\ res' = Message_decode(kind, buf)
    /\ dst' = res'.val
    /\ buf' = res'.buf
    /\ pc' = "inj_done"
    /\ UNCHANGED <<kind, tag, value, wbuf, expected_len, follow, mode, prior>>

NextSkip == SkipField \/ InjectEncode \/ InjectDecodeClean \/ InjectDecode

SpecSkip == InitSkipping /\ [][NextSkip]_vars

\* the number the first n bytes of bs stand for as a varint when it is below
\* 2^28, and a number of at least 2^28 otherwise
RECURSIVE GroupSum(_, _, _)
GroupSum(bs, i, n) ==
    IF i > n THEN 0
    ELSE IF i > 4 THEN (IF bs[i] % 128 # 0 THEN 2 ^ 28 ELSE 0) + GroupSum(bs, i + 1, n)
    ELSE (bs[i] % 128) * (128 ^ (i - 1)) + GroupSum(bs, i + 1, n)

\* the bytes one value of wire type wt takes at the head of bs; more than bs
\* has when the value is cut short or its varint does not end
ValueLen(wt, bs) ==
    LET p == FirstTerminator(bs)
    IN  CASE wt = Varint -> IF p = 0 THEN Len(bs) + 1 ELSE p
          [] wt = ThirtyTwoBit -> 4
          [] wt = SixtyFourBit -> 8
          [] wt = LengthDelimited -> IF p = 0 THEN Len(bs) + 1 ELSE p + GroupSum(bs, 1, p)

\* C7: skip_field consumes exactly one value of the wire type (Varint: one
\* varint; ThirtyTwoBit: 4 bytes; SixtyFourBit: 8 bytes; LengthDelimited: a
\* varint length L, then L bytes) and fails, with an invalid-data error, when
\* fewer bytes remain than the value takes; and a well-formed field of an unknown
\* tag put in at a field boundary of a message's encoding leaves the decode
\* successful and every field equal to its value in the decode of the clean
\* encoding.
C7_SkipField ==
    /\ pc = "skip_done"
        => IF ValueLen(kind, value) <= Len(value)
           THEN res.err = "none" /\ buf = Advance(value, ValueLen(kind, value))
           ELSE res.err = "InvalidData"
    /\ pc = "inj_done"
        => /\ prior.err = "none"
           /\ prior.val = value.msg
           /\ res.err = "none"
           /\ buf = <<>>
           /\ dst = prior.val

\* a length-delimited field of the largest tag whose payload reads as a field
\* of tag 1 was put between two fields of a Basic that has all its fields set,
\* and the decode gave the message back
C7_Witness ==
    /\ pc = "inj_done"
    /\ kind = "Basic"
    /\ tag = MAX_TAG
    /\ value.field = KeyBytes(MAX_TAG, LengthDelimited) \o <<2, 8, 1>>
    /\ value.at \notin {0, expected_len}
    /\ value.msg.int32 = Ones(32)
    /\ dst = value.msg

(***************************************************************************)
(* roundtrip of test-all-types: decode, encode, decode again, encode again  *)
(***************************************************************************)
\* most fragments an input is made of
MaxFrags == 2

\* encodings of field occurrences, canonical and not, and cut-off ones
Fragments(ty) ==
    CASE ty = "Basic" ->
            {<<8, 0>>, <<8, 255, 255, 255, 255, 15>>, <<8>> \o Rep(255, 9) \o <<1>>,
             <<16, 1>>, <<18, 2, 42, 3>>,
             <<26, 1, 97>>, <<26, 2, 195, 169>>, <<26, 1, 195>>,
             <<82, 0>>, <<82, 2, 8, 1>>, <<82, 4, 16, 1, 8, 1>>,
             <<82, 6, 8, 255, 255, 255, 255, 15>>, <<82, 3, 24, 8, 1>>,
             <<96, 5>>, <<8>>}
      [] ty = "Compound" ->
            {<<10, 0>>, <<10, 2, 8, 1>>, <<18, 2, 16, 1>>, <<18, 3, 26, 1, 97>>,
             <<18, 4, 82, 2, 8, 1>>, <<10, 1, 8>>, <<96, 1>>}
      [] ty = "RepeatedFloats" ->
            {<<93, 0, 0, 192, 127>>, <<93, 0, 0, 0, 128>>, <<93, 0, 0, 0, 0>>,
             <<202, 2, 4, 0, 0, 192, 127>>, <<202, 2, 0>>, <<205, 2, 0, 0, 128, 63>>,
             <<202, 2, 3, 0, 0, 0>>, <<93, 0>>}

RECURSIVE Concat(_)
Concat(ss) == IF Len(ss) = 0 THEN <<>> ELSE Head(ss) \o Concat(Tail(ss))

\* the inputs: at most MaxFrags fragments, one after the other
RoundtripInputs(ty) ==
    {Concat(fs) : fs \in UNION {[1..n -> Fragments(ty)] : n \in 0..MaxFrags}}

InitRoundtrip ==
    /\ pc = "rt_start"
    /\ kind \in MessageTypes
    /\ value \in RoundtripInputs(kind)
    /\ tag = 0
    /\ mode = "single"
    /\ wbuf = WithCapacity(0)
    /\ buf = <<>>
    /\ follow = <<>>
    /\ expected_len = 0
    /\ dst = Idle
    /\ res = Idle
    /\ prior = Idle

\* let all_types = match M::decode(&mut Bytes::from(data))
RtDecode ==
    /\ pc = "rt_start"
    /\ res' = Message_decode(kind, value)
    /\ dst' = res'.val
    /\ pc' = IF res'.err # "none" THEN "rt_decode_error" ELSE "rt_decoded"
    /\ UNCHANGED <<kind, tag, value, wbuf, buf, expected_len, follow, mode, prior>>

\* let encoded_len = all_types.encoded_len();
RtEncodedLen ==
    /\ pc = "rt_decoded"
    /\ expected_len' = Message_encoded_len(kind, dst)
    /\ pc' = "rt_len"
    /\ UNCHANGED <<kind, tag, value, wbuf, buf, dst, res, follow, mode, prior>>

\* all_types.encode(&mut buf1); if encoded_len != buf1.len() { return error }
RtEncode ==
    /\ pc = "rt_len"
    /\ wbuf' = Message_encode(kind, dst, WithCapacity(expected_len))
    /\ pc' = IF wbuf'.panic THEN "rt_panicked"
             ELSE IF expected_len # Len(wbuf'.data) THEN "rt_error"
             ELSE "rt_encoded"
    /\ UNCHANGED <<kind, tag, value, buf, expected_len, dst, res, follow, mode, prior>>

\* let roundtrip = match M::decode(&mut buf1.clone())
RtDecodeAgain ==
    /\ pc = "rt_encoded"
    /\ res' = Message_decode(kind, wbuf.data)
    /\ pc' = IF res'.err # "none" THEN "rt_error" ELSE "rt_redecoded"
    /\ UNCHANGED <<kind, tag, value, wbuf, buf, expected_len, dst, follow, mode, prior>>

\* roundtrip.encode(&mut buf2); if buf1 != buf2.freeze() { return error }
RtEncodeAgain ==
    /\ pc = "rt_redecoded"
    /\ \E b2 \in {Message_encode(kind, res.val, WithCapacity(expected_len))} :
         /\ buf' = b2.data
         /\ pc' = IF b2.panic THEN "rt_panicked"
                  ELSE IF wbuf.data # b2.data THEN "rt_error"
                  ELSE "rt_ok"
    /\ UNCHANGED <<kind, tag, value, wbuf, expected_len, dst, res, follow, mode, prior>>

NextRoundtrip == RtDecode \/ RtEncodedLen \/ RtEncode \/ RtDecodeAgain \/ RtEncodeAgain

SpecRoundtrip == InitRoundtrip /\ [][NextRoundtrip]_vars

\* C8: for every input that decodes into a message M (maps are ordered), the
\* encoding of M has exactly encoded_len(M) bytes, decoding it does not fail and
\* encoding what it decodes to gives the same bytes: roundtrip never returns
\* RoundtripResult::Error, and the encodings do not run out of space.
C8_ReencodeStable ==
    /\ pc \notin {"rt_error", "rt_panicked"}
    /\ pc \in {"rt_encoded", "rt_redecoded", "rt_ok"} => Len(wbuf.data) = expected_len
    /\ pc \in {"rt_redecoded", "rt_ok"} => res.err = "none"
    /\ pc = "rt_ok" => buf = wbuf.data

\* packed bools written with bytes other than 1 and a map entry with the value
\* before the key: the first encoding differs from the input and is stable
C8_Witness ==
    /\ pc = "rt_ok"
    /\ kind = "Basic"
    /\ value = <<18, 2, 42, 3, 82, 4, 16, 1, 8, 1>>
    /\ wbuf.data = <<16, 1, 16, 1, 82, 4, 8, 1, 16, 1>>
    /\ buf = wbuf.data

(***************************************************************************)
(* Two occurrences of a nested-message field merged into one child          *)
(* (message::merge)                                                         *)
(***************************************************************************)
\* encodings of a Basic: empty, single fields, a cut-off field, and one that
\* is 128 bytes long
NestPayloads ==
    {<<>>, <<8, 1>>, <<16, 1>>, <<16, 0, 16, 1>>, <<26, 1, 97>>, <<82, 2, 8, 1>>,
     <<82, 4, 8, 1, 16, 2>>, <<96, 5>>, <<8>>, <<26, 126>> \o Rep(97, 126)}

\* what the child holds before the first occurrence
NestPriors ==
    {Basic_default,
     [int32 |-> Ones(32), bools |-> <<FALSE>>, string |-> <<97>>,
      enumeration_btree_map |-> <<<<Pow2(0, 32), Pow2(0, 32)>>>>]}

\* a payload behind its length
Delimited(p) == VarintBytes(Len(p)) \o p

\* the bytes after the key of the first occurrence: both occurrences whole
\* (the second one with its key), or the first one with its last byte missing
NestStream(m, v, f) ==
    IF m = "short" THEN SubSeq(Delimited(v[1]), 1, Len(Delimited(v[1])) - 1)
    ELSE Delimited(v[1]) \o Delimited(v[2]) \o f

InitNested ==
    /\ pc = "nest_start"
    /\ kind \in WireTypes
    /\ mode \in {"whole", "short"}
    /\ tag = 2
    /\ value \in {<<a, b>> : a \in NestPayloads,
                            b \in IF mode = "short" THEN {<<>>} ELSE NestPayloads}
    /\ follow \in IF mode = "short" THEN {<<>>} ELSE FollowBytes
    /\ prior \in NestPriors
    /\ dst = prior
    /\ buf = NestStream(mode, value, follow)
    /\ wbuf = WithCapacity(0)
    /\ expected_len = 0
    /\ res = Idle

\* message::merge(wire_type, &mut child, &mut buf), for the first occurrence
\* and then for the second
NestMerge ==
    /\ pc \in {"nest_start", "nest_once"}
    /\ res' = message_merge("Basic", kind, dst, buf)
    /\ dst' = res'.val
    /\ buf' = res'.buf
    /\ pc' = IF pc = "nest_start"
             THEN (IF res'.err # "none" THEN "nest_error" ELSE "nest_once")
             ELSE (IF res'.err # "none" THEN "nest_error_second" ELSE "nest_twice")
    /\ UNCHANGED <<kind, tag, value, wbuf, expected_len, follow, mode, prior>>

\* the two payloads, one after the other, merged into what the child held
NestMergeConcat ==
    /\ pc = "nest_twice"
    /\ res' = Message_merge("Basic", prior, value[1] \o value[2])
    /\ pc' = "nest_concat"
    /\ UNCHANGED <<kind, tag, value, wbuf, buf, expected_len, dst, follow, mode, prior>>

NextNested == NestMerge \/ NestMergeConcat

SpecNested == InitNested /\ [][NextNested]_vars

\* C10: message::merge fails, leaving the child and the cursor as they were,
\* when the wire type is not LengthDelimited; it fails, leaving the child as it
\* was, when the length L exceeds the bytes that remain; otherwise it merges
\* exactly the next L bytes into the child as it is and leaves the cursor just
\* past them, whether or not the child's merge fails; and after two occurrences
\* with payloads a and b the child equals the result of merging a followed by b
\* into what it held before.
C10_NestedMerge ==
    /\ kind # LengthDelimited
        => /\ pc \in {"nest_start", "nest_error"}
           /\ pc = "nest_error"
                => /\ res.err = "InvalidData"
                   /\ dst = prior
                   /\ buf = NestStream(mode, value, follow)
    /\ (kind = LengthDelimited /\ mode = "short")
        => /\ pc \in {"nest_start", "nest_error"}
           /\ pc = "nest_error" => res.err = "InvalidData" /\ dst = prior
    /\ (kind = LengthDelimited /\ mode = "whole")
        => /\ pc \in {"nest_once", "nest_error"} => buf = Delimited(value[2]) \o follow
           /\ pc \in {"nest_twice", "nest_error_second"} => buf = follow
           /\ pc = "nest_once" => dst = Message_merge("Basic", prior, value[1]).val
           /\ pc = "nest_concat" => res.err = "none" /\ res.val = dst

\* a child that held values got an int32 from the first occurrence and a bool
\* from the second; what it held is still there, and bytes follow
C10_Witness ==
    /\ pc = "nest_concat"
    /\ prior # Basic_default
    /\ value = <<<<8, 1>>, <<16, 1>>>>
    /\ follow # <<>>
    /\ buf = follow
    /\ dst = [prior EXCEPT !.int32 = Pow2(0, 32), !.bools = <<FALSE, TRUE>>]

(***************************************************************************)
(* Maps driven as map_tests! drives them through check_collection_type,    *)
(* for BTreeMap and HashMap, every key kind and every value kind.  kind is *)
(* the pair of the key kind and the value kind, mode the map type, prior   *)
(* the map merged into and the Option of a value default (None: the        *)
(* functions without _with_default are called, as the tests call them).    *)
(***************************************************************************)
KeyKinds == ScalarKinds \ {"float", "double", "bytes"}

\* keys: the default, 1 (true, "a") and -1 (the largest unsigned value, "e-acute")
MapKeysOf(kk) ==
    CASE kk = "bool" -> {FALSE, TRUE}
      [] kk \in {"int32", "uint32", "sint32", "fixed32", "sfixed32"} ->
            {Zero(32), Pow2(0, 32), Ones(32)}
      [] kk = "string" -> {<<>>, <<97>>, <<195, 169>>}
      [] OTHER -> {Zero(64), Pow2(0, 64), Ones(64)}

\* the default key and one more
TwoKeysOf(kk) ==
    CASE kk = "bool" -> {FALSE, TRUE}
      [] kk \in {"int32", "uint32", "sint32", "fixed32", "sfixed32"} -> {Zero(32), Ones(32)}
      [] kk = "string" -> {<<>>, <<195, 169>>}
      [] OTHER -> {Zero(64), Ones(64)}

\* values: the default and one more; for float and double 0.0, -0.0 and NaN
MapValuesOf(vk) ==
    CASE vk = "bool" -> {FALSE, TRUE}
      [] vk = "float" -> {Zero(32), Pow2(31, 32), NaN32}
      [] vk = "double" -> {Zero(64), Pow2(63, 64), NaN64}
      [] vk \in {"int32", "uint32", "sint32", "fixed32", "sfixed32"} -> {Zero(32), Ones(32)}
      [] vk = "string" -> {<<>>, <<97>>}
      [] vk = "bytes" -> {<<>>, <<255, 128>>}
      [] OTHER -> {Zero(64), Ones(64)}

\* the map holding the pairs of f, as the sequence of its entries ascending by key
MapOf(kk, f) ==
    [i \in 1..Cardinality(DOMAIN f) |->
        LET k == CHOOSE k \in DOMAIN f :
                    Cardinality({j \in DOMAIN f : key_lt(kk, j, k)}) = i - 1
        IN  <<k, f[k]>>]

\* every map over the keys ks with values of kind vk
MapsOver(kk, vk, ks) == {MapOf(kk, f) : f \in UNION {[s -> MapValuesOf(vk)] : s \in SUBSET ks}}

\* a value default other than V::default()
OtherDefault(vk) ==
    CASE vk = "bool" -> TRUE
      [] vk = "float" -> NaN32
      [] vk = "double" -> Pow2(63, 64)
      [] vk \in {"int32", "uint32", "sint32", "fixed32", "sfixed32"} -> Ones(32)
      [] vk = "string" -> <<97>>
      [] vk = "bytes" -> <<255, 128>>
      [] OTHER -> Ones(64)

\* inner fields with tag 3 put into an entry: a varint 5, and a length-delimited
\* field of 8 bytes
ExtraFields == {<<24, 5>>, <<26, 8, 5, 16, 6, 16, 6, 16, 134, 0>>}

\* the maps of the tests, for every pair of kinds (three keys when the values
\* are int32, two otherwise); a supplied value default, for every value kind;
\* a map merged into one that has entries, for every key kind; entries that
\* carry an extra inner field
InitMap ==
    /\ pc = "map_start"
    /\ \/ /\ kind \in KeyKinds \X ScalarKinds
          /\ mode \in {"btree_map", "hash_map"}
          /\ tag = IF mode = "btree_map" THEN MAX_TAG ELSE MIN_TAG
          /\ value \in MapsOver(kind[1], kind[2],
                                IF kind[2] = "int32" THEN MapKeysOf(kind[1]) ELSE TwoKeysOf(kind[1]))
          /\ prior = [val_default |-> <<>>, values |-> <<>>]
          /\ follow = <<>>
       \/ /\ kind \in {"sint32"} \X ScalarKinds
          /\ mode = "btree_map"
          /\ tag = 16
          /\ value \in MapsOver(kind[1], kind[2], MapKeysOf(kind[1]))
          /\ prior = [val_default |-> <<OtherDefault(kind[2])>>, values |-> <<>>]
          /\ follow = <<>>
       \/ /\ kind \in KeyKinds \X {"int32"}
          /\ mode \in {"btree_map", "hash_map"}
          /\ tag = MIN_TAG
          /\ value \in MapsOver(kind[1], kind[2], MapKeysOf(kind[1]))
          /\ prior = [val_default |-> <<>>,
                      values |-> MapOf(kind[1], [k \in MapKeysOf(kind[1]) \ {DefaultOf(kind[1])}
                                                  |-> Pow2(0, 32)])]
          /\ follow = <<>>
       \/ /\ kind \in {"int32", "string"} \X ScalarKinds
          /\ mode = "btree_map"
          /\ tag = MIN_TAG
          /\ value \in MapsOver(kind[1], kind[2], TwoKeysOf(kind[1])) \ {<<>>}
          /\ prior = [val_default |-> <<>>, values |-> <<>>]
          /\ follow \in ExtraFields
    /\ dst = prior.values
    /\ wbuf = WithCapacity(0)
    /\ buf = <<>>
    /\ expected_len = 0
    /\ res = Idle

\* let expected_len = encoded_len(tag, &value);
MapEncodedLen ==
    /\ pc = "map_start"
    /\ expected_len' = IF prior.val_default = <<>>
                       THEN map_encoded_len(kind[1], kind[2], tag, value)
                       ELSE map_encoded_len_with_default(kind[1], kind[2], prior.val_default[1],
                                                         tag, value)
    /\ pc' = "map_len"
    /\ UNCHANGED <<kind, tag, value, wbuf, buf, dst, res, follow, mode, prior>>

\* the orders values.iter() may take: key order for a BTreeMap, any for a HashMap
IterOrders(map_ty, values) ==
    IF map_ty = "btree_map" THEN {[i \in 1..Len(values) |-> i]}
    ELSE {p \in [1..Len(values) -> 1..Len(values)] :
            \A i, j \in 1..Len(values) : p[i] = p[j] => i = j}

\* let mut buf = BytesMut::with_capacity(expected_len); encode(tag, &value, &mut buf);
MapEncode ==
    /\ pc = "map_len"
    /\ follow = <<>>
    /\ \E p \in IterOrders(mode, value) :
         wbuf' = IF prior.val_default = <<>>
                 THEN map_encode(kind[1], kind[2], tag, [i \in 1..Len(value) |-> value[p[i]]],
                                 WithCapacity(expected_len))
                 ELSE map_encode_with_default(kind[1], kind[2], prior.val_default[1], tag,
                                              [i \in 1..Len(value) |-> value[p[i]]],
                                              WithCapacity(expected_len))
    /\ buf' = wbuf'.data
    /\ pc' = IF wbuf'.panic THEN "map_panicked"
             ELSE IF Len(buf') = 0 THEN "map_done"
             ELSE "map_encoded"
    /\ UNCHANGED <<kind, tag, value, expected_len, dst, res, follow, mode, prior>>

\* the bytes of the inner fields of the entry of key and val
EntryInner(kk, vk, val_default, key, val) ==
    (IF key = DefaultOf(kk) THEN <<>>
     ELSE scalar_encode(kk, 1, key, WithCapacity(scalar_encoded_len(kk, 1, key))).data)
        \o (IF partial_eq(vk, val, val_default) THEN <<>>
            ELSE scalar_encode(vk, 2, val, WithCapacity(scalar_encoded_len(vk, 2, val))).data)

\* an entry: the outer key, the length of the inner bytes, the inner bytes
EntryBytes(t, inner) == KeyBytes(t, LengthDelimited) \o VarintBytes(Len(inner)) \o inner

\* the entries of the map arrive with the extra field in front of their own
\* inner fields
MapInject ==
    /\ pc = "map_len"
    /\ follow # <<>>
    /\ buf' = Concat([i \in 1..Len(value) |->
                        EntryBytes(tag, follow \o EntryInner(kind[1], kind[2], DefaultOf(kind[2]),
                                                             value[i][1], value[i][2]))])
    /\ pc' = "map_encoded"
    /\ UNCHANGED <<kind, tag, value, wbuf, expected_len, dst, res, follow, mode, prior>>

\* decode_key(&mut buf)
MapDecodeKey ==
    /\ pc = "map_encoded"
    /\ res' = decode_key(buf)
    /\ buf' = res'.buf
    /\ pc' = IF res'.err # "none" THEN "map_error" ELSE "map_key"
    /\ UNCHANGED <<kind, tag, value, wbuf, expected_len, dst, follow, mode, prior>>

\* check_wire_type(WireType::LengthDelimited, wire_type)?; $mod_name::merge(..);
\* the loop goes on while the buffer has bytes remaining
MapMerge ==
    /\ pc = "map_key"
    /\ res' = IF ~check_wire_type(LengthDelimited, res.val[2]) THEN Fail("InvalidData", dst, buf)
              ELSE IF prior.val_default = <<>> THEN map_merge(mode, kind[1], kind[2], dst, buf)
              ELSE map_merge_with_default(mode, kind[1], kind[2], prior.val_default[1], dst, buf)
    /\ dst' = res'.val
    /\ buf' = res'.buf
    /\ pc' = IF res'.err # "none" THEN "map_error"
             ELSE IF Len(buf') > 0 THEN "map_encoded"
             ELSE "map_done"
    /\ UNCHANGED <<kind, tag, value, wbuf, expected_len, follow, mode, prior>>

SpecMap ==
    InitMap /\ [][MapEncodedLen \/ MapEncode \/ MapInject \/ MapDecodeKey \/ MapMerge]_vars

\* the value default in force
ValDefault == IF prior.val_default = <<>> THEN DefaultOf(kind[2]) ELSE prior.val_default[1]

\* C11: for each entry, in iteration order (key order for a BTreeMap, some order
\* for a HashMap), map encode writes the outer key (tag, LengthDelimited), the
\* varint of the number of inner bytes, inner field (1, k) exactly when k is not
\* the key default, and inner field (2, v) exactly when v is not equal to the
\* value default; encoded_len is the number of bytes written, for every map,
\* entries that are all defaults included.
C11_MapEncode ==
    /\ pc # "map_panicked"
    /\ (pc \in {"map_encoded", "map_done"} /\ follow = <<>> /\ res = Idle) =>
          /\ Len(wbuf.data) = expected_len
          /\ \E p \in IterOrders(mode, value) :
                wbuf.data = Concat([i \in 1..Len(value) |->
                                EntryBytes(tag, EntryInner(kind[1], kind[2], ValDefault,
                                                           value[p[i]][1], value[p[i]][2]))])

\* a map of three entries, one of them the default key with the supplied value
\* default, has been written: 2 + 5 + 14 bytes
C11_Witness ==
    /\ pc = "map_encoded"
    /\ res = Idle
    /\ kind = <<"sint32", "fixed64">>
    /\ prior.val_default = <<Ones(64)>>
    /\ value = <<<<Ones(32), Zero(64)>>, <<Zero(32), Ones(64)>>, <<Pow2(0, 32), Ones(64)>>>>
    /\ wbuf.data = <<130, 1, 11, 8, 1, 17, 0, 0, 0, 0, 0, 0, 0, 0,
                     130, 1, 0, 130, 1, 2, 8, 2>>

\* == on two maps (HashMap and BTreeMap: PartialEq): the same keys, with equal values
map_eq(vk, a, b) ==
    /\ Len(a) = Len(b)
    /\ \A i \in 1..Len(a) : \E j \in 1..Len(b) : a[i][1] = b[j][1] /\ partial_eq(vk, a[i][2], b[j][2])

\* the same keys, each with an equal value or with the same NaN
map_same(vk, a, b) ==
    /\ Len(a) = Len(b)
    /\ \A i \in 1..Len(a) : \E j \in 1..Len(b) :
          a[i][1] = b[j][1] /\ (partial_eq(vk, a[i][2], b[j][2]) \/ a[i][2] = b[j][2])

\* C12: an inner field of an entry with a tag other than 1 or 2 is skipped, its
\* payload consumed by its wire type: entries that carry such a field decode
\* without error to the pairs of the entries without it.
C12_UnknownInnerSkipped ==
    follow # <<>> =>
        /\ pc # "map_error"
        /\ pc = "map_done" => map_same(kind[2], dst, value)

\* decoding goes on after the key of the extra field with the bytes of its
\* payload: the varint 5 is taken for a key with tag 0
C12_PayloadReadAsKey ==
    /\ pc = "map_error"
    /\ kind = <<"int32", "int32">>
    /\ value = <<<<Zero(32), Zero(32)>>>>
    /\ follow = <<24, 5>>
    /\ res.err = "InvalidData"
    /\ dst = <<>>

\* the payload of the extra field is taken for the key 5 and the value 6
C12_PayloadReadAsFields ==
    /\ pc = "map_done"
    /\ kind = <<"int32", "int32">>
    /\ value = <<<<Zero(32), Zero(32)>>>>
    /\ follow = <<26, 8, 5, 16, 6, 16, 6, 16, 134, 0>>
    /\ dst = <<<<FromNat(5, 32), FromNat(6, 32)>>>>

\* the keys of a map, and the value it holds for a key
MapKeys(m) == {m[i][1] : i \in 1..Len(m)}

MapGet(m, k) == m[CHOOSE i \in 1..Len(m) : m[i][1] = k][2]

\* C13: a map merge that succeeds consumes one entry and inserts exactly one
\* pair.  Its key is the entry's key, the key default when inner field 1 is
\* missing; its value is the value default (V::default(), or the supplied
\* val_default) when inner field 2 is missing, and the entry's value otherwise.
\* A key that is already present keeps one pair, now with the later value, and
\* the pairs of all other keys are unchanged.  (For a string or bytes value
\* merged over a non-empty val_default only the key is stated here.)
C13_MapInsert ==
    [][(pc = "map_key" /\ pc' \in {"map_encoded", "map_done"} /\ follow = <<>>) =>
        \E i \in 1..Len(value) :
            LET k == value[i][1]
                v == value[i][2]
                inner == EntryInner(kind[1], kind[2], ValDefault, k, v)
            IN  /\ buf = VarintBytes(Len(inner)) \o inner \o buf'
                /\ MapKeys(dst') = MapKeys(dst) \cup {k}
                /\ Len(dst') = Cardinality(MapKeys(dst'))
                /\ \A j \in MapKeys(dst) \ {k} : MapGet(dst', j) = MapGet(dst, j)
                /\ partial_eq(kind[2], v, ValDefault) => MapGet(dst', k) = ValDefault
                /\ (~partial_eq(kind[2], v, ValDefault)
                        /\ (kind[2] \in LengthDelimitedKinds => ValDefault = <<>>))
                      => MapGet(dst', k) = v]_vars

\* two entries have been merged into a map that had the keys 1 and 2^64 - 1:
\* the pair of the largest key was replaced by the default value of an entry
\* without a value field, the pair of 1 is as it was
C13_Witness ==
    /\ pc = "map_done"
    /\ kind = <<"uint64", "int32">>
    /\ mode = "btree_map"
    /\ prior.values = <<<<Pow2(0, 64), Pow2(0, 32)>>, <<Ones(64), Pow2(0, 32)>>>>
    /\ value = <<<<Zero(64), Ones(32)>>, <<Ones(64), Zero(32)>>>>
    /\ dst = <<<<Zero(64), Ones(32)>>, <<Pow2(0, 64), Pow2(0, 32)>>, <<Ones(64), Zero(32)>>>>

\* C14: for HashMap and BTreeMap, every key kind, every value kind and every
\* map m, as map_tests! runs them: encode never overflows the buffer, every
\* outer key read back is (tag, LengthDelimited), no merge fails, and when the
\* buffer is empty the map decoded into an empty map has the keys of m (in key
\* order for a BTreeMap), each with a value equal to the one in m, a NaN
\* coming back as the same NaN; the order the entries were written in and
\* entries that are all defaults make no difference.
C14_MapRoundTrip ==
    (follow = <<>> /\ prior.values = <<>> /\ prior.val_default = <<>>) =>
        /\ pc \notin {"map_panicked", "map_error"}
        /\ pc = "map_key" => res.val = <<tag, LengthDelimited>>
        /\ pc = "map_done" =>
              /\ buf = <<>>
              /\ map_same(kind[2], dst, value)
              /\ mode = "btree_map" => \A i \in 1..Len(value) : dst[i][1] = value[i][1]

\* a HashMap<String, f64> of a NaN under the empty key and -0.0 under another
\* came back from the bytes written in the other order: the NaN as it was,
\* -0.0 (not written, being equal to the default) as 0.0
C14_Witness ==
    /\ pc = "map_done"
    /\ mode = "hash_map"
    /\ kind = <<"string", "double">>
    /\ value = <<<<<<>>, NaN64>>, <<<<195, 169>>, Pow2(63, 64)>>>>
    /\ wbuf.data = <<10, 4, 10, 2, 195, 169, 10, 9, 17, 0, 0, 0, 0, 0, 0, 248, 127>>
    /\ dst = <<<<<<195, 169>>, Zero(64)>>, <<<<>>, NaN64>>>>

\* C14 as stated: the decoded map is equal to m
C14_AsStated ==
    (pc = "map_done" /\ follow = <<>> /\ prior.values = <<>> /\ prior.val_default = <<>>) =>
        map_eq(kind[2], dst, value)

(***************************************************************************)
(* Packed runs as encode_packed writes them                                *)
(***************************************************************************)
\* the bytes of one value without a key: what encode writes after the key
ValueBytes(k, v) ==
    Advance(scalar_encode(k, MIN_TAG, v, WithCapacity(scalar_encoded_len(k, MIN_TAG, v))).data,
            key_len(MIN_TAG))

\* C15: encode_packed writes nothing for an empty list, and encoded_len_packed
\* is 0; for a list that is not empty it writes the key (tag, LengthDelimited),
\* the varint of the sum of the lengths of the values, and the values in order
\* without keys, so that the length prefix is the number of value bytes written.
C15_EncodePacked ==
    (mode = "packed" /\ pc \in {"type_encoded", "type_key", "type_done"}) =>
        IF Len(value) = 0 THEN wbuf.data = <<>> /\ expected_len = 0
        ELSE /\ ~wbuf.panic
             /\ wbuf.data =
                  KeyBytes(tag, LengthDelimited)
                      \o VarintBytes(Sum([i \in 1..Len(value) |-> Len(ValueBytes(kind, value[i]))]))
                      \o Concat([i \in 1..Len(value) |-> ValueBytes(kind, value[i])])

\* the int32 values -1 and 0 have been written under tag 16: a two-byte key, the
\* length 11, a ten-byte varint and a zero
C15_Witness ==
    /\ mode = "packed"
    /\ pc = "type_encoded"
    /\ kind = "int32"
    /\ tag = 16
    /\ value = <<Ones(32), Zero(32)>>
    /\ wbuf.data = <<130, 1, 11, 255, 255, 255, 255, 255, 255, 255, 255, 255, 1, 0>>

(***************************************************************************)
(* merge and merge_repeated called with any wire type on buffers that were *)
(* not written by encode.  kind is a scalar kind or "message" (a Basic),   *)
(* mode the function called and the wire type passed, follow the buffer    *)
(* as it was given, prior the destination as it was given.  The function   *)
(* is called a second time on what the first call left.                    *)
(***************************************************************************)
\* buffers: empty; a zero; "a" and a spare byte; "e-acute"; half a character;
\* a length past the end; a varint without end; two strings, the first half a
\* character, the second "a" or the other half; a Basic of 9 bytes (8 bytes
\* and more for a fixed-width value); a length of 2^64 - 1; runs of 4 and of 3
\* bytes
MergeInputs ==
    {<<>>, <<0>>, <<1, 97, 7>>, <<2, 195, 169>>, <<1, 195>>, <<2, 97>>, <<128>>,
     <<1, 195, 1, 97>>, <<1, 195, 1, 169>>,
     <<9, 8, 1, 16, 0, 26, 1, 97, 96, 1>>,
     <<255, 255, 255, 255, 255, 255, 255, 255, 255, 1, 0>>,
     <<4, 0, 0, 128, 63, 8>>, <<3, 1, 2, 3>>}

\* destinations: the default and a value that is not the default
MergePriors(k) ==
    IF k = "message" THEN {Basic_default, [Basic_default EXCEPT !.int32 = Ones(32)]}
    ELSE {DefaultOf(k), OtherDefault(k)}

InitMerge ==
    /\ pc = "merge_start"
    /\ kind \in ScalarKinds \cup {"message"}
    /\ mode \in [form : {"merge", "merge_repeated"}, wire_type : WireTypes]
    /\ follow \in MergeInputs
    /\ buf = follow
    /\ \/ mode.form = "merge" /\ prior \in MergePriors(kind)
       \/ mode.form = "merge_repeated" /\ prior \in {<<>>} \cup {<<d>> : d \in MergePriors(kind)}
    /\ dst = prior
    /\ tag = 0
    /\ value = Idle
    /\ wbuf = WithCapacity(0)
    /\ expected_len = 0
    /\ res = Idle

\* $proto_ty::merge(wire_type, &mut value, &mut buf), message::merge
Merge ==
    /\ pc \in {"merge_start", "merge_once"}
    /\ mode.form = "merge"
    /\ res' = IF kind = "message" THEN message_merge("Basic", mode.wire_type, dst, buf)
              ELSE scalar_merge(kind, mode.wire_type, dst, buf)
    /\ dst' = res'.val
    /\ buf' = res'.buf
    /\ pc' = IF pc = "merge_start" THEN "merge_once" ELSE "merge_twice"
    /\ UNCHANGED <<kind, tag, value, wbuf, expected_len, follow, mode, prior>>

\* $proto_ty::merge_repeated(wire_type, &mut values, &mut buf), message::merge_repeated
MergeRepeated ==
    /\ pc \in {"merge_start", "merge_once"}
    /\ mode.form = "merge_repeated"
    /\ res' = IF kind = "message" THEN message_merge_repeated("Basic", mode.wire_type, dst, buf)
              ELSE merge_repeated(kind, mode.wire_type, dst, buf)
    /\ dst' = res'.val
    /\ buf' = res'.buf
    /\ pc' = IF pc = "merge_start" THEN "merge_once" ELSE "merge_twice"
    /\ UNCHANGED <<kind, tag, value, wbuf, expected_len, follow, mode, prior>>

SpecMerge == InitMerge /\ [][Merge \/ MergeRepeated]_vars

\* the wire types a call does not refuse at once
AcceptedWireTypes ==
    LET natural == IF kind = "message" THEN LengthDelimited ELSE NaturalWireType(kind)
    IN  IF mode.form = "merge" THEN {natural}
        ELSE IF kind \in NumericKinds THEN {natural, LengthDelimited}
        ELSE {LengthDelimited}

\* C16: merge called with a wire type other than the kind's natural one fails,
\* with the cursor where it was and the destination as it was; merge_repeated
\* does the same unless the wire type is the natural one or LengthDelimited
\* for a numeric kind, LengthDelimited for string, bytes and nested messages.
C16_WireTypeMismatch ==
    [][(pc' # pc /\ mode.wire_type \notin AcceptedWireTypes) =>
            /\ res'.err # "none"
            /\ buf' = buf
            /\ dst' = dst]_vars

\* merge_repeated for sfixed32 was called with wire type Varint on a buffer of
\* six bytes and a list of one value: it failed and both are as they were
C16_Witness ==
    /\ pc = "merge_once"
    /\ kind = "sfixed32"
    /\ mode = [form |-> "merge_repeated", wire_type |-> Varint]
    /\ follow = <<4, 0, 0, 128, 63, 8>>
    /\ prior = <<Ones(32)>>
    /\ res.err = "InvalidData"
    /\ buf = follow
    /\ dst = prior

\* C17: bytes::merge and string::merge, given wire type LengthDelimited and a
\* buffer that starts with a varint L: when L is more than the bytes that
\* remain after it, the call fails and the destination is as it was;
\* otherwise the cursor is past exactly the L payload bytes and the
\* destination ends with a copy of them; bytes::merge then succeeds, and
\* string::merge fails exactly when the destination it leaves is not valid UTF-8.
C17_LengthDelimitedMerge ==
    [][(pc' # pc /\ kind \in LengthDelimitedKinds /\ mode.form = "merge"
            /\ mode.wire_type = LengthDelimited /\ FirstTerminator(buf) > 0) =>
        LET p == FirstTerminator(buf)
            L == GroupSum(buf, 1, p)
        IN  IF L > Len(buf) - p
            THEN res'.err # "none" /\ dst' = dst
            ELSE /\ buf' = Advance(buf, p + L)
                 /\ Len(dst') >= L
                 /\ SubSeq(dst', Len(dst') - L + 1, Len(dst')) = SubSeq(buf, p + 1, p + L)
                 /\ kind = "bytes" => res'.err = "none"
                 /\ kind = "string" => (res'.err # "none" <=> ~Utf8Valid(dst'))]_vars

\* the first half of "e-acute" was merged into an empty String, which failed;
\* the second half was then merged into the same String, which succeeded
C17_Witness ==
    /\ pc = "merge_twice"
    /\ kind = "string"
    /\ mode = [form |-> "merge", wire_type |-> LengthDelimited]
    /\ follow = <<1, 195, 1, 169>>
    /\ prior = <<>>
    /\ dst = <<195, 169>>
    /\ res.err = "none"
    /\ buf = <<>>

(***************************************************************************)
(* Messages written and read with a length in front (message.rs).  mode is *)
(* "whole" when the bytes written are read back with the bytes of follow   *)
(* after them, "cut" when the last byte written is missing; prior is the   *)
(* message merge_length_delimited merges into.                             *)
(***************************************************************************)
InitFramed ==
    /\ pc = "framed_start"
    /\ kind \in MessageTypes
    /\ value \in MessagesOf(kind)
    /\ \/ mode = "whole" /\ follow \in {<<>>, <<8, 1>>}
       \/ mode = "cut" /\ follow = <<>>
    /\ prior = value
    /\ tag = 0
    /\ wbuf = WithCapacity(0)
    /\ buf = <<>>
    /\ expected_len = 0
    /\ dst = Idle
    /\ res = Idle

\* msg.encode_length_delimited(&mut buf) into an empty buffer
FramedEncode ==
    /\ pc = "framed_start"
    /\ wbuf' = Message_encode_length_delimited(kind, value, WithCapacity(0))
    /\ buf' = IF mode = "whole" THEN wbuf'.data \o follow
              ELSE SubSeq(wbuf'.data, 1, Len(wbuf'.data) - 1)
    /\ pc' = IF wbuf'.panic THEN "framed_panicked" ELSE "framed_encoded"
    /\ UNCHANGED <<kind, tag, value, expected_len, dst, res, follow, mode, prior>>

\* M::decode_length_delimited(&mut buf)
FramedDecode ==
    /\ pc = "framed_encoded"
    /\ res' = Message_decode_length_delimited(kind, buf)
    /\ dst' = res'.val
    /\ buf' = res'.buf
    /\ pc' = "framed_decoded"
    /\ UNCHANGED <<kind, tag, value, wbuf, expected_len, follow, mode, prior>>

\* prior.merge_length_delimited(&mut buf)
FramedMerge ==
    /\ pc = "framed_encoded"
    /\ res' = Message_merge_length_delimited(kind, prior, buf)
    /\ dst' = res'.val
    /\ buf' = res'.buf
    /\ pc' = "framed_merged"
    /\ UNCHANGED <<kind, tag, value, wbuf, expected_len, follow, mode, prior>>

SpecFramed == InitFramed /\ [][FramedEncode \/ FramedDecode \/ FramedMerge]_vars

\* the fields are equal, or a float field is a NaN and the same NaN
Message_same(ty, a, b) ==
    IF ty = "RepeatedFloats"
    THEN /\ f32_same(a.single_float, b.single_float)
         /\ Len(a.repeated_float) = Len(b.repeated_float)
         /\ \A i \in 1..Len(a.repeated_float) : f32_same(a.repeated_float[i], b.repeated_float[i])
    ELSE a = b

\* what C18 says of the bytes: encode_length_delimited writes the varint of
\* encoded_len(M) and then the bytes of encode(M); reading the bytes back
\* succeeds and leaves exactly the bytes that came after them; when the last
\* byte is missing, reading fails and nothing is merged
FramedBytes ==
    /\ pc # "framed_panicked"
    /\ pc # "framed_start" =>
          wbuf.data = VarintBytes(Message_encoded_len(kind, value))
                          \o Message_encode(kind, value, WithCapacity(0)).data
    /\ (pc \in {"framed_decoded", "framed_merged"} /\ mode = "whole") =>
          res.err = "none" /\ buf = follow
    /\ (pc = "framed_decoded" /\ mode = "cut") =>
          res.err # "none" /\ dst = Message_default(kind)
    /\ (pc = "framed_merged" /\ mode = "cut") =>
          res.err # "none" /\ dst = prior

\* C18, as amended: encode_length_delimited(M) writes the varint of
\* encoded_len(M) followed by exactly the bytes of encode(M);
\* decode_length_delimited and merge_length_delimited on a buffer that starts
\* with those bytes succeed and leave the bytes after the framed message in
\* the buffer, and the value decoded has fields equal to those of M, where a
\* float field that is NaN in M comes back as the same NaN, bit for bit; when the
\* declared length exceeds the bytes that remain, both fail and nothing is merged.
C18_LengthDelimited ==
    /\ FramedBytes
    /\ (pc = "framed_decoded" /\ mode = "whole") => Message_same(kind, dst, value)

\* a Compound whose children take 131 bytes each has been written behind a
\* two-byte length and read back with two more bytes after it, which are left
C18_Witness ==
    /\ pc = "framed_decoded"
    /\ kind = "Compound"
    /\ mode = "whole"
    /\ follow = <<8, 1>>
    /\ Len(wbuf.data) > 129
    /\ SubSeq(wbuf.data, 1, 2) = VarintBytes(Len(wbuf.data) - 2)
    /\ res.err = "none"
    /\ dst = value
    /\ buf = follow

\* C18, as stated: the value returned is equal to M
C18_AsStated ==
    /\ FramedBytes
    /\ (pc = "framed_decoded" /\ mode = "whole") => Message_eq(kind, dst, value)

(***************************************************************************)
(* The zig-zag mappings of sint32 and sint64 (to_uint64, from_uint64)      *)
(***************************************************************************)
\* w-bit values: 2^k, 2^k - 1, their negations, and both with every other bit
\* set from bit k up
ZigZagValues(w) ==
    UNION {{Pow2(k, w), LowOnes(k, w), Neg(Pow2(k, w)), Neg(LowOnes(k, w)),
            [i \in 1..w |-> IF i > k /\ (i - k) % 2 = 1 THEN 1 ELSE 0],
            [i \in 1..w |-> IF i > k /\ (i - k) % 2 = 0 THEN 1 ELSE 0]} : k \in 0..(w - 1)}

InitZigZag ==
    /\ pc = "zigzag_start"
    /\ \/ kind = "sint32" /\ value \in ZigZagValues(32)
       \/ kind = "sint64" /\ value \in ZigZagValues(64)
    /\ tag = 0
    /\ wbuf = WithCapacity(0)
    /\ buf = <<>>
    /\ follow = <<>>
    /\ expected_len = 0
    /\ dst = Idle
    /\ res = Idle
    /\ mode = "single"
    /\ prior = Idle

\* $to_uint64 of the kind
ZigZagEncode ==
    /\ pc = "zigzag_start"
    /\ res' = to_uint64(kind, value)
    /\ expected_len' = encoded_len_varint(res')
    /\ pc' = "zigzag_encoded"
    /\ UNCHANGED <<kind, tag, value, wbuf, buf, dst, follow, mode, prior>>

\* $from_uint64 of the kind
ZigZagDecode ==
    /\ pc = "zigzag_encoded"
    /\ dst' = from_uint64(kind, res)
    /\ pc' = "zigzag_decoded"
    /\ UNCHANGED <<kind, tag, value, wbuf, buf, expected_len, res, follow, mode, prior>>

SpecZigZag == InitZigZag /\ [][ZigZagEncode \/ ZigZagDecode]_vars

\* C19: the sint32 and the sint64 decode mapping applied to the encode mapping
\* of v gives v, for v of the kind's width; the sint32 encode mapping gives a
\* value below 2^32, whose varint has at most 5 bytes.
C19_ZigZagInvolution ==
    /\ pc = "zigzag_decoded" => dst = value
    /\ (pc # "zigzag_start" /\ kind = "sint32") => Below(res, 32) /\ expected_len <= 5

\* i32::MIN was mapped to 2^32 - 1, five bytes as a varint, and back
C19_Witness ==
    /\ pc = "zigzag_decoded"
    /\ kind = "sint32"
    /\ value = Pow2(31, 32)
    /\ res = LowOnes(32, 64)
    /\ expected_len = 5
    /\ dst = Pow2(31, 32)

(***************************************************************************)
(* An int32 field written and read back, and read from varints that encode *)
(* did not write, then written again (varint!(i32, int32)).  mode is       *)
(* "value" when the field of value is written first, "bytes" when the      *)
(* bytes of follow are the input.                                          *)
(***************************************************************************)
\* varints of 4 to 11 bytes: an optional first byte, continuation bytes, a last byte
Int32Varints ==
    {f \o Rep(c, n) \o l : f \in {<<>>, <<133>>}, c \in ContBytes, n \in {3, 4, 8, 9},
                           l \in {<<0>>, <<1>>, <<15>>, <<127>>}}

InitInt32 ==
    /\ kind = "int32"
    /\ \/ /\ mode = "value"
          /\ pc = "int32_start"
          /\ value \in ZigZagValues(32)
          /\ tag \in ListTags
          /\ follow = <<>>
       \/ /\ mode = "bytes"
          /\ pc = "int32_encoded"
          /\ value = Idle
          /\ tag = MIN_TAG
          /\ follow \in {KeyBytes(MIN_TAG, Varint) \o v : v \in Int32Varints}
    /\ buf = follow
    /\ wbuf = WithCapacity(0)
    /\ expected_len = 0
    /\ dst = DefaultOf("int32")
    /\ res = Idle
    /\ prior = Idle

\* int32::encode(tag, &value, &mut buf) into a buffer of encoded_len bytes
Int32Encode ==
    /\ pc = "int32_start"
    /\ expected_len' = scalar_encoded_len("int32", tag, value)
    /\ wbuf' = scalar_encode("int32", tag, value, WithCapacity(expected_len'))
    /\ buf' = wbuf'.data
    /\ pc' = IF wbuf'.panic THEN "int32_panicked" ELSE "int32_encoded"
    /\ UNCHANGED <<kind, tag, value, dst, res, follow, mode, prior>>

\* decode_key(&mut buf)
Int32DecodeKey ==
    /\ pc = "int32_encoded"
    /\ res' = decode_key(buf)
    /\ buf' = res'.buf
    /\ pc' = IF res'.err # "none" THEN "int32_error" ELSE "int32_key"
    /\ UNCHANGED <<kind, tag, value, wbuf, expected_len, dst, follow, mode, prior>>

\* int32::merge(wire_type, &mut value, &mut buf)
Int32Merge ==
    /\ pc = "int32_key"
    /\ res' = scalar_merge("int32", res.val[2], dst, buf)
    /\ dst' = res'.val
    /\ buf' = res'.buf
    /\ pc' = IF res'.err # "none" THEN "int32_error" ELSE "int32_merged"
    /\ UNCHANGED <<kind, tag, value, wbuf, expected_len, follow, mode, prior>>

\* the value read is written again: encoded_len, then encode
Int32Reencode ==
    /\ pc = "int32_merged"
    /\ expected_len' = scalar_encoded_len("int32", tag, dst)
    /\ wbuf' = scalar_encode("int32", tag, dst, WithCapacity(expected_len'))
    /\ pc' = IF wbuf'.panic THEN "int32_panicked" ELSE "int32_reencoded"
    /\ UNCHANGED <<kind, tag, value, buf, dst, res, follow, mode, prior>>

SpecInt32 == InitInt32 /\ [][Int32Encode \/ Int32DecodeKey \/ Int32Merge \/ Int32Reencode]_vars

\* bit j (from 0) of the number the varint bs stands for, p its last byte
VarintBit(bs, p, j) ==
    IF (j \div 7) + 1 <= p THEN (bs[(j \div 7) + 1] \div (2 ^ (j % 7))) % 2 ELSE 0

\* C20: a negative int32 is written as the varint of its 64-bit sign extension,
\* ten bytes after the key, of which the sixth to the ninth are FF and the
\* tenth is 01, and reading it back gives the value; int32::merge takes any
\* varint of up to ten bytes and keeps its low 32 bits; a negative value read
\* from a shorter varint is therefore written again with more bytes than were
\* read.
C20_Int32SignExtension ==
    /\ pc \notin {"int32_panicked"}
    /\ (mode = "value" /\ pc # "int32_start") =>
          /\ pc # "int32_error"
          /\ Len(wbuf.data) = expected_len
          /\ value[32] = 1 =>
                /\ expected_len = key_len(tag) + 10
                /\ \A i \in 6..9 : wbuf.data[key_len(tag) + i] = 255
                /\ wbuf.data[key_len(tag) + 10] = 1
          /\ pc \in {"int32_merged", "int32_reencoded"} => dst = value /\ buf = <<>>
    /\ (mode = "bytes" /\ pc \in {"int32_error", "int32_merged", "int32_reencoded"}) =>
          LET v == Advance(follow, 1)
              p == FirstTerminator(v)
          IN  IF p = 0 THEN pc = "int32_error"
              ELSE /\ pc # "int32_error"
                   /\ dst = [i \in 1..32 |-> VarintBit(v, p, i - 1)]
                   /\ buf = Advance(v, p)
                   /\ (pc = "int32_reencoded" /\ dst[32] = 1) =>
                         Len(wbuf.data) = 11 /\ Len(wbuf.data) >= 1 + p

\* -1 read from the five-byte varint FF FF FF FF 0F, a field of six bytes, has
\* been written again as a field of eleven bytes
C20_Witness ==
    /\ pc = "int32_reencoded"
    /\ mode = "bytes"
    /\ follow = <<8, 255, 255, 255, 255, 15>>
    /\ dst = Ones(32)
    /\ wbuf.data = <<8, 255, 255, 255, 255, 255, 255, 255, 255, 255, 1>>
    /\ Len(wbuf.data) > Len(follow)

(***************************************************************************)
(* A sint32 field read from varints of every length (varint!(i32, sint32)):*)
(* follow is the input, a key and a varint, prior the destination as given.*)
(***************************************************************************)
\* varints of 1 to 11 bytes
Sint32Varints ==
    Int32Varints \cup {<<0>>, <<1>>, <<2>>, <<3>>, <<254, 255, 255, 255, 15>>,
                       <<255, 255, 255, 255, 15>>, <<255, 255, 255, 255, 31>>}

InitSint32 ==
    /\ pc = "sint32_start"
    /\ kind = "sint32"
    /\ tag = MIN_TAG
    /\ follow \in {KeyBytes(MIN_TAG, Varint) \o v : v \in Sint32Varints}
    /\ buf = follow
    /\ prior \in {DefaultOf("sint32"), Pow2(3, 32)}
    /\ dst = prior
    /\ value = Idle
    /\ wbuf = WithCapacity(0)
    /\ expected_len = 0
    /\ res = Idle
    /\ mode = "bytes"

\* decode_key(&mut buf)
Sint32DecodeKey ==
    /\ pc = "sint32_start"
    /\ res' = decode_key(buf)
    /\ buf' = res'.buf
    /\ pc' = IF res'.err # "none" THEN "sint32_error" ELSE "sint32_key"
    /\ UNCHANGED <<kind, tag, value, wbuf, expected_len, dst, follow, mode, prior>>

\* sint32::merge(wire_type, &mut value, &mut buf)
Sint32Merge ==
    /\ pc = "sint32_key"
    /\ res' = scalar_merge("sint32", res.val[2], dst, buf)
    /\ dst' = res'.val
    /\ buf' = res'.buf
    /\ pc' = IF res'.err # "none" THEN "sint32_error" ELSE "sint32_merged"
    /\ UNCHANGED <<kind, tag, value, wbuf, expected_len, follow, mode, prior>>

SpecSint32 == InitSint32 /\ [][Sint32DecodeKey \/ Sint32Merge]_vars

\* C21: sint32::merge keeps the low 32 bits u of the decoded varint, whatever
\* the bits above them, and gives the inverse zig-zag of u: u / 2 when u is
\* even, -(u + 1) / 2 when u is odd (bit i of the result is bit i + 1 of u
\* xor bit 0 of u, the sign is bit 0).  The ten-byte varint of 2^64 - 1,
\* FF FF FF FF FF FF FF FF FF 01, has u = 2^32 - 1 and gives i32::MIN; a
\* varint that does not end within ten bytes fails and leaves the destination.
C21_Sint32Truncation ==
    pc \in {"sint32_error", "sint32_merged"} =>
        LET v == Advance(follow, 1)
            p == FirstTerminator(v)
        IN  IF p = 0 THEN pc = "sint32_error" /\ dst = prior
            ELSE /\ pc = "sint32_merged"
                 /\ buf = Advance(v, p)
                 /\ dst = [i \in 1..32 |->
                             IF i = 32 THEN VarintBit(v, p, 0)
                             ELSE (VarintBit(v, p, i) + VarintBit(v, p, 0)) % 2]
                 /\ v = Rep(255, 9) \o <<1>> => dst = Pow2(31, 32)

\* the varint of 2^64 - 1 has been read as a sint32: i32::MIN
C21_Witness ==
    /\ pc = "sint32_merged"
    /\ follow = <<8>> \o Rep(255, 9) \o <<1>>
    /\ res.err = "none"
    /\ dst = Pow2(31, 32)
    /\ buf = <<>>

\* C21 as stated: a ten-byte varint whose bits 32 to 63 are all ones is read
\* as the sint32 -1
C21_AsStated ==
    pc = "sint32_merged" =>
        LET v == Advance(follow, 1)
            p == FirstTerminator(v)
        IN  (p = 10 /\ \A j \in 32..63 : VarintBit(v, p, j) = 1) => dst = Ones(32)

(***************************************************************************)
(* The conformance harness (src/conformance/src/main.rs).  ConformanceRequest*)
(* and ConformanceResponse are generated from the conformance .proto: a    *)
(* request has the oneof payload (protobuf_payload: bytes, tag 1;          *)
(* json_payload: string, tag 2) and requested_output_format (tag 3); a     *)
(* response has the oneof result (parse_error, tag 1; runtime_error, tag 2;*)
(* protobuf_payload, tag 3; skipped, tag 5).  The payload is a Basic.      *)
(***************************************************************************)
\* the bytes of the texts the harness answers with; the text of an io::Error
\* (format!("{:?}", error), error.to_string()) is the name of its kind, and the
\* length error of roundtrip is without its numbers
Text(s) ==
    CASE s = "unrecognized requested output format" ->
             <<117, 110, 114, 101, 99, 111, 103, 110, 105, 122, 101, 100, 32, 114, 101,
             113, 117, 101, 115, 116, 101, 100, 32, 111, 117, 116, 112, 117, 116, 32, 102,
             111, 114, 109, 97, 116>>
      [] s = "JSON output is not supported" ->
             <<74, 83, 79, 78, 32, 111, 117, 116, 112, 117, 116, 32, 105, 115, 32, 110,
             111, 116, 32, 115, 117, 112, 112, 111, 114, 116, 101, 100>>
      [] s = "no payload" ->
             <<110, 111, 32, 112, 97, 121, 108, 111, 97, 100>>
      [] s = "JSON input is not supported" ->
             <<74, 83, 79, 78, 32, 105, 110, 112, 117, 116, 32, 105, 115, 32, 110, 111,
             116, 32, 115, 117, 112, 112, 111, 114, 116, 101, 100>>
      [] s = "expected encoded len did not match actual encoded len" ->
             <<101, 120, 112, 101, 99, 116, 101, 100, 32, 101, 110, 99, 111, 100, 101, 100,
             32, 108, 101, 110, 32, 100, 105, 100, 32, 110, 111, 116, 32, 109, 97, 116, 99,
             104, 32, 97, 99, 116, 117, 97, 108, 32, 101, 110, 99, 111, 100, 101, 100, 32,
             108, 101, 110>>
      [] s = "roundtripped encoded buffers do not match" ->
             <<114, 111, 117, 110, 100, 116, 114, 105, 112, 112, 101, 100, 32, 101, 110,
             99, 111, 100, 101, 100, 32, 98, 117, 102, 102, 101, 114, 115, 32, 100, 111,
             32, 110, 111, 116, 32, 109, 97, 116, 99, 104>>
      [] s = "InvalidData" ->
             <<73, 110, 118, 97, 108, 105, 100, 68, 97, 116, 97>>
      [] s = "InvalidInput" ->
             <<73, 110, 118, 97, 108, 105, 100, 73, 110, 112, 117, 116>>

ConformanceRequest_default == [payload |-> <<>>, requested_output_format |-> Zero(32)]

\* the merge loop of ConformanceRequest: a field of the oneof replaces the
\* payload, the enumeration is kept as an i32, other tags are skipped
RECURSIVE ConformanceRequest_merge(_, _)
ConformanceRequest_merge(m, bs) ==
    LET put(t, r) ==
            CASE t = 1 -> [m EXCEPT !.payload = <<[variant |-> "ProtobufPayload", data |-> r.val]>>]
              [] t = 2 -> [m EXCEPT !.payload = <<[variant |-> "JsonPayload", data |-> r.val]>>]
              [] t = 3 -> [m EXCEPT !.requested_output_format = r.val]
              [] OTHER -> m
        next(t, r) ==
            IF r.err # "none" THEN Fail(r.err, m, r.buf)
            ELSE ConformanceRequest_merge(put(t, r), r.buf)
        field(t, wt, rest) ==
            next(t, CASE t = 1 -> scalar_merge("bytes", wt, <<>>, rest)
                      [] t = 2 -> scalar_merge("string", wt, <<>>, rest)
                      [] t = 3 -> scalar_merge("int32", wt, m.requested_output_format, rest)
                      [] OTHER -> skip_field(wt, rest))
        key(k) ==
            IF k.err # "none" THEN Fail(k.err, m, k.buf)
            ELSE field(k.val[1], k.val[2], k.buf)
    IN  IF Len(bs) = 0 THEN Ok(m, bs) ELSE key(decode_key(bs))

\* request.requested_output_format(): Some(WireFormat) for a value of the
\* enumeration, None for a field that is absent or holds another number
requested_output_format(request) ==
    CASE request.requested_output_format = FromNat(1, 32) -> <<"Protobuf">>
      [] request.requested_output_format = FromNat(2, 32) -> <<"Json">>
      [] OTHER -> <<>>

\* the tag of each variant of conformance_response::Result
ResultTag(variant) ==
    CASE variant = "ParseError" -> 1
      [] variant = "RuntimeError" -> 2
      [] variant = "ProtobufPayload" -> 3
      [] variant = "Skipped" -> 5

\* response.encoded_len() and response.encode(buf) with result = Some(result)
ConformanceResponse_encoded_len(result) ==
    length_delimited_encoded_len(ResultTag(result.variant), result.data)

ConformanceResponse_encode(result, b) ==
    bytes_encode(ResultTag(result.variant), result.data,
                 Reserve(b, ConformanceResponse_encoded_len(result)))

\* roundtrip::<M>(data)
roundtrip(ty, data) ==
    LET second(buf1, len, r) ==
            IF r.err # "none" THEN [result |-> "Error", data |-> Text(r.err)]
            ELSE IF Message_encode(ty, r.val, WithCapacity(len)).data # buf1
            THEN [result |-> "Error", data |-> Text("roundtripped encoded buffers do not match")]
            ELSE [result |-> "Ok", data |-> buf1]
        encoded(b1, len) ==
            IF b1.panic THEN [result |-> "Panic", data |-> <<>>]
            ELSE IF len # Len(b1.data)
            THEN [result |-> "Error",
                  data |-> Text("expected encoded len did not match actual encoded len")]
            ELSE second(b1.data, len, Message_decode(ty, b1.data))
        first(d) ==
            IF d.err # "none" THEN [result |-> "DecodeError", data |-> Text(d.err)]
            ELSE encoded(Message_encode(ty, d.val, WithCapacity(Message_encoded_len(ty, d.val))),
                         Message_encoded_len(ty, d.val))
    IN  first(Message_decode(ty, data))

\* mutant: the payload is looked at before the output format
handle_request_payload_first(request) ==
    LET result(r) ==
            CASE r.result = "Ok" -> [variant |-> "ProtobufPayload", data |-> r.data]
              [] r.result = "DecodeError" -> [variant |-> "ParseError", data |-> r.data]
              [] r.result = "Error" -> [variant |-> "RuntimeError", data |-> r.data]
              [] OTHER -> [variant |-> "Panic", data |-> <<>>]
    IN  IF request.payload = <<>>
        THEN [variant |-> "ParseError", data |-> Text("no payload")]
        ELSE IF request.payload[1].variant = "JsonPayload"
        THEN [variant |-> "Skipped", data |-> Text("JSON input is not supported")]
        ELSE IF requested_output_format(request) = <<"Json">>
        THEN [variant |-> "Skipped", data |-> Text("JSON output is not supported")]
        ELSE IF requested_output_format(request) = <<>>
        THEN [variant |-> "ParseError", data |-> Text("unrecognized requested output format")]
        ELSE result(roundtrip("Basic", request.payload[1].data))

\* handle_request(request); a panic of roundtrip is the variant "Panic"
handle_request(request) ==
    LET result(r) ==
            CASE r.result = "Ok" -> [variant |-> "ProtobufPayload", data |-> r.data]
              [] r.result = "DecodeError" -> [variant |-> "ParseError", data |-> r.data]
              [] r.result = "Error" -> [variant |-> "RuntimeError", data |-> r.data]
              [] OTHER -> [variant |-> "Panic", data |-> <<>>]
    IN  IF requested_output_format(request) = <<"Json">>
        THEN [variant |-> "Skipped", data |-> Text("JSON output is not supported")]
        ELSE IF requested_output_format(request) = <<>>
        THEN [variant |-> "ParseError", data |-> Text("unrecognized requested output format")]
        ELSE IF request.payload = <<>>
        THEN [variant |-> "ParseError", data |-> Text("no payload")]
        ELSE IF request.payload[1].variant = "JsonPayload"
        THEN [variant |-> "Skipped", data |-> Text("JSON input is not supported")]
        ELSE result(roundtrip("Basic", request.payload[1].data))

(***************************************************************************)
(* main of the conformance harness.  follow is what standard input still   *)
(* holds, wbuf the working buffer buf, expected_len the local len, buf the *)
(* bytes handed to ConformanceRequest::decode, value the request, res the  *)
(* result, dst what was written to standard output, tag the number of      *)
(* turns of the loop begun.  mode tells what a read past the end of the    *)
(* input gives: end of file ("eof") or an error ("io_error").  prior keeps *)
(* the input as it was made: the bodies of the requests and what follows   *)
(* the last one.  pc = "harness_exited" is the return from main (exit code *)
(* 0), pc = "harness_panicked" a panic (exit code 101).                    *)
(***************************************************************************)
\* most turns of the loop
MaxRounds == 3

\* most requests in an input
MaxRequests == 2

\* bodies: an empty request; a Basic payload, protobuf output; a payload cut
\* off; JSON output; a JSON payload; no payload; a format that is no value of
\* the enumeration; no format; a byte that is no request; packed bools that
\* are written back differently; the format before the payload; JSON output
\* and no payload; a JSON payload and no format; a payload cut off and no format
HarnessBodies ==
    {<<>>, <<10, 2, 8, 1, 24, 1>>, <<10, 1, 8, 24, 1>>, <<10, 2, 8, 1, 24, 2>>,
     <<18, 2, 123, 125, 24, 1>>, <<24, 1>>, <<10, 2, 8, 1, 24, 7>>, <<10, 2, 8, 1>>,
     <<255>>, <<10, 4, 18, 2, 42, 3, 24, 1>>, <<24, 1, 10, 2, 8, 1>>,
     <<24, 2>>, <<18, 2, 123, 125>>, <<10, 1, 8>>}

\* after the last request: nothing, half a length prefix, a body shorter than
\* its length
HarnessTails == {<<>>, <<1, 0>>, <<5, 0, 0, 0, 24, 1>>}

\* a request as it is framed: the length in four bytes, then the body
Frame(body) == LeBytes(FromNat(Len(body), 32)) \o body

\* bodies of the requests after the first: the payload of 2 bytes (its answer
\* has 4 bytes), no payload (its answer has 12), and one as long as the answer
\* to the request before it when that one was the first of these
LaterBodies == {<<10, 2, 8, 1, 24, 1>>, <<24, 1>>, <<24, 1, 24, 1>>}

\* the requests of an input: none, or any body and then some of the later ones
HarnessRequests ==
    {<<>>} \cup UNION {{<<b>> \o r : b \in HarnessBodies, r \in [1..n -> LaterBodies]} :
                        n \in 0..(MaxRequests - 1)}

InitHarness ==
    /\ pc = "harness_loop"
    /\ kind = "harness"
    /\ mode \in {"eof", "io_error"}
    /\ prior \in [requests : HarnessRequests, tail : HarnessTails]
    /\ follow = Concat([i \in 1..Len(prior.requests) |-> Frame(prior.requests[i])]) \o prior.tail
    /\ wbuf = WithCapacity(0)
    /\ buf = <<>>
    /\ dst = <<>>
    /\ tag = 0
    /\ expected_len = 0
    /\ value = Idle
    /\ res = Idle

\* buf.take(): the bytes written are split off, the handle keeps the spare room
BytesMut_take(b) == [b EXCEPT !.data = <<>>, !.cap = @ - Len(b.data)]

\* io::copy(&mut io::stdin().take(n), &mut buf.writer()): what is there, up to
\* n bytes, is appended
copy_stdin(input, n, b) == PutSlice(b, SubSeq(input, 1, Min(n, Len(input))))

\* lines 34-44: buf.reserve(4); io::copy of 4 bytes, break on an error;
\* len = buf.take().freeze().get_u32::<LittleEndian>(), which panics when the
\* buffer holds less than 4 bytes
HarnessReadLen ==
    /\ pc = "harness_loop"
    /\ tag < MaxRounds
    /\ tag' = tag + 1
    /\ follow' = Advance(follow, Min(4, Len(follow)))
    /\ \E b \in {copy_stdin(follow, 4, Reserve(wbuf, 4))} :
         IF mode = "io_error" /\ Len(follow) < 4
         THEN /\ pc' = "harness_exited"
              /\ wbuf' = b
              /\ UNCHANGED expected_len
         ELSE IF Len(b.data) < 4
         THEN /\ pc' = "harness_panicked"
              /\ wbuf' = BytesMut_take(b)
              /\ UNCHANGED expected_len
         ELSE /\ pc' = "harness_len"
              /\ wbuf' = BytesMut_take(b)
              /\ expected_len' = ToNat(FromLeBytes(b.data, 32))
    /\ UNCHANGED <<kind, value, buf, dst, res, mode, prior>>

\* lines 46-52: buf.reserve(len); io::copy of len bytes, unwrapped;
\* ConformanceRequest::decode(&mut buf.take().freeze()), then handle_request
\* or the ParseError of the decode error
HarnessReadRequest ==
    /\ pc = "harness_len"
    /\ follow' = Advance(follow, Min(expected_len, Len(follow)))
    /\ \E b \in {copy_stdin(follow, expected_len, Reserve(wbuf, expected_len))} :
         /\ wbuf' = BytesMut_take(b)
         /\ IF mode = "io_error" /\ Len(follow) < expected_len
            THEN /\ pc' = "harness_panicked"
                 /\ UNCHANGED <<buf, value, res>>
            ELSE /\ buf' = b.data
                 /\ \E r \in {ConformanceRequest_merge(ConformanceRequest_default, b.data)} :
                      IF r.err # "none"
                      THEN /\ value' = Idle
                           /\ res' = [variant |-> "ParseError", data |-> Text(r.err)]
                           /\ pc' = "harness_result"
                      ELSE /\ value' = r.val
                           /\ res' = handle_request(r.val)
                           /\ pc' = IF res'.variant = "Panic" THEN "harness_panicked"
                                    ELSE "harness_result"
    /\ UNCHANGED <<kind, tag, expected_len, dst, mode, prior>>

\* lines 54-66: the response is put into buf after its length, the assertion
\* len + 4 == buf.len(), and buf is written to standard output
HarnessRespond ==
    /\ pc = "harness_result"
    /\ expected_len' = ConformanceResponse_encoded_len(res)
    /\ wbuf' = ConformanceResponse_encode(res,
                   PutSlice(Reserve(wbuf, expected_len' + 4),
                            LeBytes(FromNat(expected_len', 32))))
    /\ IF wbuf'.panic \/ expected_len' + 4 # Len(wbuf'.data)
       THEN pc' = "harness_panicked" /\ UNCHANGED dst
       ELSE pc' = "harness_loop" /\ dst' = dst \o wbuf'.data
    /\ UNCHANGED <<kind, tag, value, buf, res, follow, mode, prior>>

SpecHarness == InitHarness /\ [][HarnessReadLen \/ HarnessReadRequest \/ HarnessRespond]_vars

\* C22: each request is read by its own length prefix N and exactly N bytes,
\* in the order of the input, and each answer is written once, as its length
\* M in four bytes and M bytes, before the next request is read; nothing that
\* the working buffer still holds is taken for a part of the next request.
C22_RequestFraming ==
    [][/\ (pc = "harness_loop" /\ pc' = "harness_len" /\ tag' <= Len(prior.requests)) =>
              /\ expected_len' = Len(prior.requests[tag'])
              /\ expected_len' = ToNat(FromLeBytes(follow, 32))
              /\ follow' = Advance(follow, 4)
       /\ (pc = "harness_len" /\ pc' = "harness_result" /\ tag <= Len(prior.requests)) =>
              buf' = prior.requests[tag]
       /\ (pc = "harness_result" /\ pc' = "harness_loop") =>
              \E m \in 0..Len(dst') :
                  /\ Len(dst') = Len(dst) + 4 + m
                  /\ SubSeq(dst', 1, Len(dst)) = dst
                  /\ SubSeq(dst', Len(dst) + 1, Len(dst) + 4) = LeBytes(FromNat(m, 32))]_vars

\* the second request, of 2 bytes, is read with the length 4 of the answer to
\* the first, which the working buffer still held in front of the new prefix
C22_StaleLength ==
    /\ pc = "harness_len"
    /\ tag = 2
    /\ prior.requests = <<<<10, 2, 8, 1, 24, 1>>, <<24, 1>>>>
    /\ dst = <<4, 0, 0, 0, 26, 2, 8, 1>>
    /\ expected_len = 4
    /\ Len(prior.requests[2]) = 2

\* C23: handle_request looks at the output format first and at the payload
\* after it: no format or a number that is no format gives ParseError
\* ("unrecognized requested output format"), JSON gives Skipped ("JSON output is
\* not supported"); then no payload gives ParseError ("no payload"), a JSON
\* payload Skipped ("JSON input is not supported"); a protobuf payload is
\* decoded and encoded again: ParseError when it does not decode, RuntimeError
\* when the encoding has not encoded_len bytes or does not come back as itself
\* from a second decode and encode, and otherwise ProtobufPayload with the
\* encoding.
C23_HandleRequest ==
    (pc = "harness_result" /\ value # Idle) =>
        LET fmt == value.requested_output_format
            is(variant, s) == res = [variant |-> variant, data |-> Text(s)]
            again(b1, len, r) ==
                IF \/ Len(b1) # len
                   \/ r.err # "none"
                   \/ Message_encode("Basic", r.val, WithCapacity(len)).data # b1
                THEN res.variant = "RuntimeError"
                ELSE res = [variant |-> "ProtobufPayload", data |-> b1]
            encoded(b1, len) == again(b1, len, Message_decode("Basic", b1))
            decoded(d) ==
                IF d.err # "none" THEN res.variant = "ParseError"
                ELSE encoded(Message_encode("Basic", d.val, WithCapacity(0)).data,
                             Message_encoded_len("Basic", d.val))
        IN  IF fmt \notin {FromNat(1, 32), FromNat(2, 32)}
            THEN is("ParseError", "unrecognized requested output format")
            ELSE IF fmt = FromNat(2, 32) THEN is("Skipped", "JSON output is not supported")
            ELSE IF value.payload = <<>> THEN is("ParseError", "no payload")
            ELSE IF value.payload[1].variant = "JsonPayload"
            THEN is("Skipped", "JSON input is not supported")
            ELSE decoded(Message_decode("Basic", value.payload[1].data))

\* a request for JSON output that has no payload has been skipped for its
\* format, not refused for the payload it lacks
C23_Witness ==
    /\ pc = "harness_result"
    /\ buf = <<24, 2>>
    /\ value = [payload |-> <<>>, requested_output_format |-> FromNat(2, 32)]
    /\ res = [variant |-> "Skipped", data |-> Text("JSON output is not supported")]

\* C24: when standard input is at its end where a request would begin, the
\* harness leaves the loop: it returns from main (exit code 0), does not panic
\* and writes nothing more.
C24_CleanExitOnEof ==
    [][(pc = "harness_loop" /\ follow = <<>> /\ mode = "eof") =>
           (pc' = "harness_exited" /\ dst' = dst)]_vars

\* on an empty input get_u32 finds no bytes and panics
C24_PanicOnEmptyInput ==
    /\ pc = "harness_panicked"
    /\ mode = "eof"
    /\ prior = [requests |-> <<>>, tail |-> <<>>]
    /\ tag = 1
    /\ dst = <<>>

\* after one request the end of the input is answered like a request: the
\* length is taken from the answer before, the empty body is decoded and a
\* second and a third answer are written
C24_AnswersAfterEof ==
    /\ pc = "harness_loop"
    /\ mode = "eof"
    /\ prior = [requests |-> <<<<24, 1>>>>, tail |-> <<>>]
    /\ follow = <<>>
    /\ tag = 3
    /\ Len(dst) = (4 + 12) + 2 * (4 + 38)

\* C25: the harness does not panic, whatever the input: a length prefix cut
\* off, a body shorter than its length, bytes that are no request or no
\* payload; it answers and goes on to the next request.
C25_NeverPanics ==
    mode = "eof" => pc # "harness_panicked"

\* two bytes where a length prefix of four should be: get_u32 panics
C25_PanicOnShortPrefix ==
    /\ pc = "harness_panicked"
    /\ mode = "eof"
    /\ prior = [requests |-> <<>>, tail |-> <<1, 0>>]
    /\ dst = <<>>

(***************************************************************************)
(* A packed repeated bool field read from bytes and written again          *)
(* (varint!(bool, bool): merge_repeated, encoded_len_packed,               *)
(* encode_packed).  value is the payload of the field, follow the field:   *)
(* key, length, payload.                                                   *)
(***************************************************************************)
\* payloads: the bytes 2A 03; values written as 00 and 01; zero and non-zero
\* values written with more bytes; a varint without end; no value
PackedPayloads ==
    {<<42, 3>>, <<1, 1>>, <<0>>, <<1>>, <<0, 1>>, <<1, 0, 1>>, <<0, 0, 42>>, <<2>>,
     <<128, 0>>, <<128, 1>>, <<1, 128, 0>>, Rep(255, 9) \o <<1>>, Rep(128, 9) \o <<0>>,
     <<1, 128>>, <<128>>, <<>>}

PackedTags == {43, MIN_TAG, 16, MAX_TAG}

InitPacked ==
    /\ pc = "packed_start"
    /\ kind = "bool"
    /\ tag \in PackedTags
    /\ value \in PackedPayloads
    /\ follow = KeyBytes(tag, LengthDelimited) \o VarintBytes(Len(value)) \o value
    /\ buf = follow
    /\ dst = <<>>
    /\ wbuf = WithCapacity(0)
    /\ expected_len = 0
    /\ res = Idle
    /\ mode = "bytes"
    /\ prior = Idle

\* decode_key(&mut buf)
PackedDecodeKey ==
    /\ pc = "packed_start"
    /\ res' = decode_key(buf)
    /\ buf' = res'.buf
    /\ pc' = IF res'.err # "none" THEN "packed_error" ELSE "packed_key"
    /\ UNCHANGED <<kind, tag, value, wbuf, expected_len, dst, follow, mode, prior>>

\* bool::merge_repeated(wire_type, &mut values, &mut buf)
PackedMerge ==
    /\ pc = "packed_key"
    /\ res' = merge_repeated(kind, res.val[2], dst, buf)
    /\ dst' = res'.val
    /\ buf' = res'.buf
    /\ pc' = IF res'.err # "none" THEN "packed_error" ELSE "packed_merged"
    /\ UNCHANGED <<kind, tag, value, wbuf, expected_len, follow, mode, prior>>

\* bool::encoded_len_packed(tag, &values), then bool::encode_packed(tag, &values, &mut buf)
PackedReencode ==
    /\ pc = "packed_merged"
    /\ expected_len' = encoded_len_packed(kind, tag, dst)
    /\ wbuf' = encode_packed(kind, tag, dst, WithCapacity(expected_len'))
    /\ pc' = IF wbuf'.panic THEN "packed_panicked" ELSE "packed_reencoded"
    /\ UNCHANGED <<kind, tag, value, buf, dst, res, follow, mode, prior>>

SpecPacked == InitPacked /\ [][PackedDecodeKey \/ PackedMerge \/ PackedReencode]_vars

\* every varint of the payload ends within ten bytes
RECURSIVE VarintsEnd(_)
VarintsEnd(bs) ==
    \/ bs = <<>>
    \/ FirstTerminator(bs) > 0 /\ VarintsEnd(Advance(bs, FirstTerminator(bs)))

\* for each varint of the payload, whether one of its 7-bit groups is not zero
RECURSIVE NonZeroVarints(_)
NonZeroVarints(bs) ==
    IF bs = <<>> THEN <<>>
    ELSE <<\E i \in 1..FirstTerminator(bs) : bs[i] % 128 # 0>>
             \o NonZeroVarints(Advance(bs, FirstTerminator(bs)))

\* C26: a packed run is read as one bool for each varint, true when the varint
\* is not zero, and written again with each value as the one byte 01 or 00:
\* DA 02 02 2A 03 is read as [true, true] and written again as DA 02 02 01 01.
\* The bytes written are the bytes read exactly when the run has a value and
\* every byte of it is 00 or 01.
C26_PackedBools ==
    /\ pc # "packed_panicked"
    /\ pc \in {"packed_error", "packed_merged", "packed_reencoded"} =>
          IF ~VarintsEnd(value) THEN pc = "packed_error"
          ELSE /\ pc # "packed_error"
               /\ dst = NonZeroVarints(value)
               /\ buf = <<>>
    /\ pc = "packed_reencoded" =>
          /\ Len(wbuf.data) = expected_len
          /\ wbuf.data = IF dst = <<>> THEN <<>>
                         ELSE KeyBytes(tag, LengthDelimited) \o VarintBytes(Len(dst))
                                  \o [i \in 1..Len(dst) |-> IF dst[i] THEN 1 ELSE 0]
          /\ wbuf.data = follow <=> (value # <<>> /\ \A i \in 1..Len(value) : value[i] \in {0, 1})
          /\ follow = <<218, 2, 2, 42, 3>> =>
                dst = <<TRUE, TRUE>> /\ wbuf.data = <<218, 2, 2, 1, 1>>

\* DA 02 02 2A 03 has been read as [true, true] and written as DA 02 02 01 01
C26_Witness ==
    /\ pc = "packed_reencoded"
    /\ tag = 43
    /\ follow = <<218, 2, 2, 42, 3>>
    /\ dst = <<TRUE, TRUE>>
    /\ wbuf.data = <<218, 2, 2, 1, 1>>

\* C26 as stated: DA 02 02 2A 03 is read as [true, true], and writing that
\* vector as a packed field of the same tag gives DA 02 02 2A 03 again
C26_AsStated ==
    (pc = "packed_reencoded" /\ follow = <<218, 2, 2, 42, 3>>) =>
        dst = <<TRUE, TRUE>> /\ wbuf.data = follow

\* C27: a decoding or merging call that fails reports an invalid-data error;
\* an invalid-input error comes from no decode and no merge.
C27_DecodeErrorsAreInvalidData ==
    res = Idle \/ res.err \in {"none", "InvalidData"}

\* a framed Basic whose last byte is missing: merge_length_delimited reports
\* invalid input
C27_UnderflowIsInvalidInput ==
    /\ pc = "framed_merged"
    /\ kind = "Basic"
    /\ mode = "cut"
    /\ value = [Basic_default EXCEPT !.int32 = Pow2(0, 32)]
    /\ wbuf.data = <<2, 8, 1>>
    /\ buf = <<8>>
    /\ res.err = "InvalidInput"

\* C29: when string::merge returns, with Ok or with an error, the String it
\* was given holds valid UTF-8 only; so does every String of the vector
\* given to string::merge_repeated.
C29_StringStaysUtf8 ==
    (kind = "string" /\ pc \in {"merge_once", "merge_twice"}) =>
        IF mode.form = "merge" THEN Utf8Valid(dst)
        ELSE \A i \in 1..Len(dst) : Utf8Valid(dst[i])

\* the payload C3, the first half of a character, has been put into an empty
\* String and left there when the check failed
C29_InvalidBytesLeft ==
    /\ pc = "merge_once"
    /\ kind = "string"
    /\ mode = [form |-> "merge", wire_type |-> LengthDelimited]
    /\ follow = <<1, 195>>
    /\ prior = <<>>
    /\ res.err = "InvalidData"
    /\ dst = <<195>>
    /\ ~Utf8Valid(dst)

\* the sum over the first n bytes of bs of (b_i mod 128) * 2^(7i), written on
\* 70 bits: seven bits for each of up to ten bytes, none of them dropped
ExactSum(bs, n) ==
    [j \in 1..70 |->
        IF (j - 1) \div 7 + 1 <= n
        THEN ((bs[(j - 1) \div 7 + 1] % 128) \div (2 ^ ((j - 1) % 7))) % 2
        ELSE 0]

\* C30: when decode_varint returns Ok(v) after consuming n <= 10 bytes, v is
\* exactly the sum of (b_i mod 128) * 2^(7i) with no bits discarded; a ten-byte
\* input whose tenth byte is greater than 1 is rejected.
C30_DecodeVarintExact ==
    pc \in {"raw_varint_done", "varint_done"}
    => LET inp == IF pc = "raw_varint_done" THEN value \o follow
                  ELSE wbuf.data \o follow
           n == Len(inp) - Len(buf)
       IN  /\ res.err = "none" =>
                 /\ n <= 10
                 /\ ZeroExt(res.val, 70) = ExactSum(inp, n)
           /\ (Len(inp) >= 10 /\ (\A i \in 1..9 : inp[i] >= 128) /\ inp[10] > 1)
                 => res.err # "none"

\* 80 (nine times) 02 encodes 2^64; decode_varint returns Ok(0)
C30_TenthByteTruncated ==
    /\ pc = "raw_varint_done"
    /\ value = Rep(128, 9) \o <<2>>
    /\ follow = <<>>
    /\ res.err = "none"
    /\ res.val = Zero(64)
    /\ buf = <<>>

====
